---- MODULE Spec2Model ----
(***************************************************************************)
(* A model of the MangaDex downloader's download reconciliation engine:    *)
(*   - the on-disk layout  {download_dir}/{title}/[Vol.{v}/]Ch.{c}/{files} *)
(*   - the structure reconciler (DownloadManager._update_volume_structure  *)
(*     and the stand-alone update_volumes.py script)                       *)
(*   - the chapter fetcher (DownloadManager.download_chapter with its      *)
(*     worker pool and DownloadManager._download_image with its retries)   *)
(*   - the orchestrator (DownloadManager.download_manga and                *)
(*     DownloadManager.download_chapter_range).                            *)
(*                                                                         *)
(* Strings of the program are TLA+ strings; Python's None is Null.  A      *)
(* directory name such as "Vol.3" is the pair <<"Vol.", "3">>, a path is   *)
(* the sequence of its directory names below the manga directory, and a    *)
(* page file name "001.jpg" is the pair <<<<0, 0, 1>>, "jpg">>.  The       *)
(* chapter and volume numbers of the model contain neither "Ch." nor       *)
(* "Vol.", so that str.replace("Ch.", "") strips exactly the prefix.       *)
(***************************************************************************)
EXTENDS Integers, Sequences, FiniteSets, TLC

\* ------------------------------------------------------------------ bounds

\* Longest remote chapter list the reconciler is run against.
MaxRemote == 2

\* Most requests and file operations that fail in one orchestration behaviour.
MaxFaults == 2

\* Most pages a chapter has.
MaxPages == 2

\* Worker count of the page pool (max_workers) in the concurrent runs.
MaxWorkers == 2

\* Settings.MAX_RETRIES as configured for the model's runs (0 to 10 in the program).
MaxRetries == 1

\* ------------------------------------------------------------ input domains

\* Python's None.
Null == "<None>"

\* Chapter numbers, as the catalog and the directory names spell them.
ChapterSeq == <<"1", "2">>

ChapterNums == {ChapterSeq[i] : i \in DOMAIN ChapterSeq}

\* Volume numbers found in local Vol.* directory names.
LocalVolSeq == <<"1", "2">>

LocalVols == {LocalVolSeq[i] : i \in DOMAIN LocalVolSeq}

\* Volume values the catalog returns: unassigned (None), a sentinel, or a number.
RemoteVols == {Null, "None", "1", "2"}

IndexOf(seq, x) == CHOOSE i \in DOMAIN seq : seq[i] = x

Range(seq) == {seq[i] : i \in DOMAIN seq}

\* All sequences over S of length at most n without a repeated element.
RECURSIVE DistinctSeqs(_, _)
DistinctSeqs(S, n) ==
  IF n = 0 THEN {<< >>}
  ELSE LET shorter == DistinctSeqs(S, n - 1)
       IN  shorter \cup
           {Append(p[1], p[2]) : p \in {q \in shorter \X S : q[2] \notin Range(q[1])}}

\* The catalog's flat chapter list (MangaAPI.get_chapters_list): one entry per
\* (volume, chapter) key pair of the aggregate, so no pair occurs twice.
RemoteEntries == [volume : RemoteVols, chapter : ChapterNums]

RemoteLists == DistinctSeqs(RemoteEntries, MaxRemote)

\* ------------------------------------------------------------ the filesystem

\* A directory name "Ch.{c}" or "Vol.{v}".
ChName(c) == <<"Ch.", c>>

VolName(v) == <<"Vol.", v>>

\* Path.name.startswith(prefix)
StartsWith(name, prefix) == name[1] = prefix

\* Path.name.replace(prefix, "")
StripPrefix(name) == name[2]

\* page file "{idx:03d}.{ext}" of the model's pre-existing chapter directories
OldFile == <<<<0, 0, 1>>, "jpg">>

\* The content of the chapter directory that stood at slot (v, c) initially:
\* one page file whose bytes are distinct for every slot.
VolCode(v) == IF v = Null THEN 0 ELSE IndexOf(LocalVolSeq, v)

\* The bytes of a file are <<chapter, page, whole>>: the page they are the image
\* of and whether all of them were written (1) or the write stopped early (0).
\* Chapter 0 stands for files that were there before any run of the model.
OldFiles(v, c) == OldFile :> <<0, VolCode(v) * 10 + IndexOf(ChapterSeq, c), 1>>

NoFiles == << >>

\* manga_dir / [Vol.{v} /] Ch.{c}, relative to manga_dir
SlotPath(v, c) == IF v = Null THEN <<ChName(c)>> ELSE <<VolName(v), ChName(c)>>

Slots == (LocalVols \cup {Null}) \X ChapterNums

\* A manga directory is a function from the paths of its directories (volume
\* directories and chapter directories) to the files each holds.
TreeOf(slots) ==
  [p \in {SlotPath(s[1], s[2]) : s \in slots} \cup
         {<<VolName(s[1])>> : s \in {q \in slots : q[1] # Null}} |->
     IF Len(p) = 1 /\ StartsWith(p[1], "Vol.") THEN NoFiles
     ELSE OldFiles(IF Len(p) = 1 THEN Null ELSE StripPrefix(p[1]), StripPrefix(p[Len(p)]))]

InitTrees == {TreeOf(slots) : slots \in SUBSET Slots}

Exists(t, p) == p \in DOMAIN t

\* Path.iterdir() of the directory at path p (the manga directory is << >>)
IterDir(t, p) == {q \in DOMAIN t : Len(q) = Len(p) + 1 /\ SubSeq(q, 1, Len(p)) = p}

\* Path.mkdir(parents=True, exist_ok=True) of a directory directly below manga_dir
MkDir(t, p) == IF Exists(t, p) THEN t ELSE (p :> NoFiles) @@ t

Remove(t, p) == [q \in DOMAIN t \ {p} |-> t[q]]

\* shutil.move(old_path, new_path): a rename when new_path does not exist; into
\* the directory new_path (as new_path/basename) when it does.
ShutilMove(t, old_path, new_path) ==
  IF Exists(t, new_path)
  THEN (Append(new_path, old_path[Len(old_path)]) :> t[old_path]) @@ Remove(t, old_path)
  ELSE (new_path :> t[old_path]) @@ Remove(t, old_path)

\* The chapter directories of a tree, wherever they are.
ChapterDirs(t) == {p \in DOMAIN t : StartsWith(p[Len(p)], "Ch.")}

\* --------------------------------------------------------------- variables

VARIABLES
  tool,             \* "downloader": _update_volume_structure; "script": update_volumes.py
  root,             \* the download directory: top-level directory name -> tree
  manga_dir,        \* the name of the manga directory being reconciled
  remote,           \* the catalog's chapter list for the manga (unchanged by a run)
  rpc,              \* the reconciler's position
  local_structure,  \* chapter number -> [volume, path], as scanned
  api_structure,    \* [order, vol]: the dict chapter number -> volume, in insertion order
  changes,          \* the list of StructureChanges of this run
  pos,              \* position in changes of the next change to apply
  run,              \* 1 for the first reconciliation, 2 for the one right after it
  \* history, read by the properties only
  tree0,            \* the manga directory when the current run began
  errors,           \* the kinds of error caught so far in the current run
  moved_count,      \* moves performed in the current run
  skipped,          \* chapters whose change was skipped for a collision in this run
  run1,             \* [errors, skipped, moved] of the first run, once it is over
  \* download_chapter
  cpc,              \* "idle", "call", "pool", "returned" or "raised"
  call,             \* its arguments: [id, title, volume, chapter_number]
  max_workers,      \* self.max_workers
  image_urls,       \* the page resolver's answer for the chapter
  chapter_dir,      \* the chapter directory: <<top-level name, path below it>>
  download_tasks,   \* the (url, file_path) pairs submitted to the pool
  tstate,           \* per task: "queued", "running", "ok" or "failed"
  retry_count,      \* per task: the retry_count of its current _download_image call
  collected,        \* the tasks whose future the as_completed loop has taken
  success_count,
  \* history, read by the properties only
  net,              \* [meta, resolver, image]: network requests made by the call
  opened,           \* <<page position, file name>> of every file opened for writing
  files0,           \* the files of the chapter directory when the call began
  \* download_manga and download_chapter_range
  opc,              \* "idle", "start", "legacy", "reconcile", "list", "chapters", "done", "raised"
  mode,             \* "manga": download_manga; "range": download_chapter_range
  request,          \* the caller's arguments: [volume_filter, chapter_filter, start, end]
  manga,            \* the manga's metadata: its title map, language -> title
  pages_of,         \* chapter id -> the page URLs the resolver lists for it
  manga_title,
  chapters_data,    \* the chapter list being downloaded
  ci,               \* position in chapters_data of the next chapter
  stats,            \* the statistics dictionary
  orun,             \* 1 for the first orchestration run, 2 for the one after it
  twice,            \* whether a second run follows the first
  faults,           \* requests and file operations that may still fail in this behaviour
  failure,          \* where the exception that ended the run was raised, or "none"
  \* history, read by the properties only
  attempts,         \* per download_chapter call of this run: what it was given and did
  stats1,           \* the outcome of the first run, once it is over
  \* HTTPClient._handle_response
  response,         \* the response it is given: [status_code, retry_after, body]
  handled           \* what it did: [kind, value, retry_after]

recVars == <<tool, manga_dir, remote, rpc, local_structure, api_structure,
             changes, pos, run, tree0, errors, moved_count, skipped, run1>>

chVars == <<cpc, call, max_workers, image_urls, chapter_dir, download_tasks, tstate,
            retry_count, collected, success_count, net, opened, files0>>

orchVars == <<opc, mode, request, manga, pages_of, manga_title, chapters_data, ci,
              stats, orun, twice, faults, failure, attempts, stats1>>

httpVars == <<response, handled>>

vars == <<root, recVars, chVars, orchVars, httpVars>>

\* No response has been handled.
NoResponse == [status_code |-> 0, retry_after |-> <<Null>>, body |-> "<empty>"]

NoOutcome == [kind |-> "none", value |-> "none", retry_after |-> [set |-> FALSE, seconds |-> 0]]

HttpIdle == response = NoResponse /\ handled = NoOutcome

\* ------------------------------------------------------------ the reconciler

MangaTree == root[manga_dir]

\* The volume directories of t that hold a chapter directory Ch.{c}.
VolsHolding(t, c) ==
  {StripPrefix(p[1]) : p \in {q \in DOMAIN t : Len(q) = 2 /\ StartsWith(q[1], "Vol.")
                                              /\ q[2] = ChName(c)}}

LocalChapters(t) == {StripPrefix(p[Len(p)]) : p \in ChapterDirs(t)}

\* The scans the two loops over manga_dir.iterdir() can produce.  Chapters at the
\* root are entered first and every volume directory overwrites them; among
\* several volume directories holding the same chapter number the one iterated
\* last wins, and iterdir() promises no order.
GetCurrentStructure(t) ==
  LET found == LocalChapters(t)
      last  == {w \in [found -> LocalVols \cup {Null}] :
                  \A c \in found : IF VolsHolding(t, c) = {} THEN w[c] = Null
                                   ELSE w[c] \in VolsHolding(t, c)}
  IN  {[c \in found |-> [volume |-> w[c], path |-> SlotPath(w[c], c)]] : w \in last}

\* str.lower() on the volume strings of the model
Lower(s) == CASE s = "None" -> "none" [] s = "NULL" -> "null" [] OTHER -> s

\* `volume and volume.lower() not in ["none", "null", ""]`
VolumeAssigned(volume) ==
  /\ volume # Null
  /\ volume # ""
  /\ Lower(volume) \notin {"none", "null", ""}

NormalizeVolume(volume) == IF VolumeAssigned(volume) THEN volume ELSE Null

\* A mutant of the loop over chapters_data: the volume is stored as the catalog
\* gives it, without the normalization.
RECURSIVE GetApiStructureRawMutant(_)
GetApiStructureRawMutant(data) ==
  IF data = << >> THEN [order |-> << >>, vol |-> << >>]
  ELSE LET n    == Len(data)
           rest == GetApiStructureRawMutant(SubSeq(data, 1, n - 1))
           ch   == data[n]
       IN  [order |-> IF ch.chapter \in Range(rest.order) THEN rest.order
                      ELSE Append(rest.order, ch.chapter),
            vol   |-> (ch.chapter :> ch.volume) @@ rest.vol]

\* The dict api_structure built by the loop over chapters_data: a key keeps the
\* position of its first insertion and the value of its last.
RECURSIVE GetApiStructure(_)
GetApiStructure(data) ==
  IF data = << >> THEN [order |-> << >>, vol |-> << >>]
  ELSE LET n    == Len(data)
           rest == GetApiStructure(SubSeq(data, 1, n - 1))
           ch   == data[n]
       IN  [order |-> IF ch.chapter \in Range(rest.order) THEN rest.order
                      ELSE Append(rest.order, ch.chapter),
            vol   |-> (ch.chapter :> NormalizeVolume(ch.volume)) @@ rest.vol]

\* One StructureChange per chapter number of api present locally under
\* another volume, in api's order.
RECURSIVE CompareUpTo(_, _, _)
CompareUpTo(current, api, n) ==
  IF n = 0 THEN << >>
  ELSE LET before      == CompareUpTo(current, api, n - 1)
           chapter_num == api.order[n]
       IN  IF chapter_num \in DOMAIN current
              /\ current[chapter_num].volume # api.vol[chapter_num]
           THEN Append(before, [chapter  |-> chapter_num,
                                from_vol |-> current[chapter_num].volume,
                                to_vol   |-> api.vol[chapter_num],
                                path     |-> current[chapter_num].path])
           ELSE before

RECURSIVE CompareWithoutVolumeTestMutant(_, _)
CompareWithoutVolumeTestMutant(current, api) ==
  IF api.order = << >> THEN << >>
  ELSE LET n           == Len(api.order)
           before      == CompareWithoutVolumeTestMutant(
                            current, [api EXCEPT !.order = SubSeq(api.order, 1, n - 1)])
           chapter_num == api.order[n]
       IN  IF chapter_num \in DOMAIN current
           THEN Append(before, [chapter  |-> chapter_num,
                                from_vol |-> current[chapter_num].volume,
                                to_vol   |-> api.vol[chapter_num],
                                path     |-> current[chapter_num].path])
           ELSE before

CompareStructures(current, api) == CompareUpTo(current, api, Len(api.order))

\* `if to_vol:` new_path = manga_dir / f"Vol.{to_vol}" / f"Ch.{chapter_num}"
\* else manga_dir / f"Ch.{chapter_num}"
NewPathIgnoresVolumeMutant(to_vol, chapter_num) == <<ChName(chapter_num)>>

NewPath(to_vol, chapter_num) ==
  IF to_vol # Null /\ to_vol # ""
  THEN <<VolName(to_vol), ChName(chapter_num)>>
  ELSE <<ChName(chapter_num)>>

\* new_path.parent of a path below the manga directory (<< >> is the manga directory)
Parent(p) == SubSeq(p, 1, Len(p) - 1)

\* `not new_path.exists()`
AlwaysFreeMutant(t, new_path) == TRUE

\* A mutant of the same test: no destination is free.
NeverFreeMutant(t, new_path) == FALSE

DestinationFree(t, new_path) == ~Exists(t, new_path)

\* `if from_vol:` remove Vol.{from_vol} when it exists and iterdir() yields nothing
CleanupWithoutEmptyCheckMutant(t, from_vol) ==
  IF from_vol # Null /\ from_vol # "" /\ Exists(t, <<VolName(from_vol)>>)
  THEN [q \in {r \in DOMAIN t : r[1] # VolName(from_vol)} |-> t[q]]
  ELSE t

CleanupEmptyVolume(t, from_vol) ==
  IF from_vol # Null /\ from_vol # ""
     /\ Exists(t, <<VolName(from_vol)>>) /\ IterDir(t, <<VolName(from_vol)>>) = {}
  THEN Remove(t, <<VolName(from_vol)>>)
  ELSE t

\* The body of the loop over changes for one change: every way it can end.
\* update_volumes.py runs the cleanup after a skipped move too.
ApplyChange(t, change, which) ==
  LET new_path == NewPath(change.to_vol, change.chapter)
      made     == IF Parent(new_path) = << >> THEN t ELSE MkDir(t, Parent(new_path))
      moved    == ShutilMove(made, change.path, new_path)
      cleans   == change.from_vol # Null /\ change.from_vol # ""
      Out(tr, m, s, e) == [tree |-> tr, moved |-> m, skipped |-> s, error |-> e]
  IN  {Out(t, FALSE, FALSE, TRUE)}                                   \* mkdir raised
      \cup
      (IF DestinationFree(made, new_path)
       THEN {Out(made, FALSE, FALSE, TRUE),                          \* shutil.move raised
             Out(CleanupEmptyVolume(moved, change.from_vol), TRUE, FALSE, FALSE)}
            \cup (IF cleans THEN {Out(moved, TRUE, FALSE, TRUE)} ELSE {})   \* rmdir raised
       ELSE IF which = "script"
            THEN {Out(CleanupEmptyVolume(made, change.from_vol), FALSE, TRUE, FALSE)}
                 \cup (IF cleans THEN {Out(made, FALSE, TRUE, TRUE)} ELSE {})
            ELSE {Out(made, FALSE, TRUE, FALSE)})

\* ------------------------------------------------------------- the layout

\* A title or a top-level directory name is the sequence of its characters.
InvalidChars == {"<", ">", ":", "\"", "/", "\\", "|", "?", "*"}

Whitespace == {" ", "\t", "\n"}

\* str.strip()
RECURSIVE Strip(_)
Strip(str) ==
  IF str = << >> THEN str
  ELSE IF str[1] \in Whitespace THEN Strip(Tail(str))
  ELSE IF str[Len(str)] \in Whitespace THEN Strip(SubSeq(str, 1, Len(str) - 1))
  ELSE str

\* DownloadManager._sanitize_filename
SanitizeFilename(filename) ==
  Strip([i \in DOMAIN filename |-> IF filename[i] \in InvalidChars THEN "_" ELSE filename[i]])

\* DownloadManager._get_chapter_dir: the manga directory's name and the path below it
GetChapterDir(title, volume, chapter) ==
  <<SanitizeFilename(title),
    IF VolumeAssigned(volume) THEN <<VolName(volume), ChName(chapter)>>
    ELSE <<ChName(chapter)>> >>

\* The title of the manga in the reconciler's and the chapter fetcher's own runs.
TheTitle == <<"A", ":", "B">>

\* The name of the manga directory in the reconciler's own runs.
RecMangaDir == SanitizeFilename(TheTitle)

\* chapter_dir.mkdir(parents=True, exist_ok=True) for dir = <<top, path>>
MkDirs(rt, dir) ==
  LET top  == dir[1]
      path == dir[2]
      t0   == IF top \in DOMAIN rt THEN rt[top] ELSE << >>
      new  == {SubSeq(path, 1, n) : n \in 1..Len(path)} \ DOMAIN t0
      t1   == [q \in DOMAIN t0 \cup new |-> IF q \in DOMAIN t0 THEN t0[q] ELSE NoFiles]
  IN  (top :> t1) @@ rt

DirExists(rt, dir) == dir[1] \in DOMAIN rt /\ dir[2] \in DOMAIN rt[dir[1]]

FilesOf(rt, dir) == IF DirExists(rt, dir) THEN rt[dir[1]][dir[2]] ELSE NoFiles

PutFile(rt, dir, name, bytes) ==
  [rt EXCEPT ![dir[1]] = [@ EXCEPT ![dir[2]] = (name :> bytes) @@ @]]

\* ------------------------------------------------------- the chapter fetcher

Exts == {"jpg", "png"}

\* A page URL "{base_url}/{quality}/{hash}/{image}" is the sequence of the parts
\* that its dots separate; the model's URLs are <<image, ext>>.
PageUrl(id, i, ext) == <<[chapter |-> id, page |-> i], ext>>

\* url.split(".")[-1]
UrlExt(url) == url[Len(url)]

\* The bytes the server sends for a URL.
Content(url) == <<url[1].chapter, url[1].page, 1>>

Partial(bytes) == <<bytes[1], bytes[2], 0>>

\* f"{idx:03d}"
RECURSIVE Digits(_)
Digits(n) == IF n < 10 THEN <<n>> ELSE Append(Digits(n \div 10), n % 10)

Pad3(n) ==
  LET d == Digits(n)
  IN  IF Len(d) >= 3 THEN d ELSE [i \in 1..3 |-> IF i <= 3 - Len(d) THEN 0 ELSE d[i - (3 - Len(d))]]

\* file_path = chapter_dir / f"{idx:03d}.{ext}"
NameByZeroBasedIndexMutant(idx, url) == <<Pad3(idx - 1), UrlExt(url)>>

FilePath(idx, url) == <<Pad3(idx), UrlExt(url)>>

\* len(set(chapter_dir.glob("*.*"))): every file name of the model has a dot
GlobCount(files) == Cardinality(DOMAIN files)

\* `if len(existing_images) == len(image_urls)`
SkipRuleNeverMutant(files, urls) == FALSE

SkipRule(files, urls) == GlobCount(files) = Len(urls)

\* the loop that builds download_tasks: the pages whose file does not exist
RECURSIVE BuildTasks(_, _, _)
BuildTasks(files, urls, n) ==
  IF n = 0 THEN << >>
  ELSE LET before == BuildTasks(files, urls, n - 1)
       IN  IF FilePath(n, urls[n]) \notin DOMAIN files
           THEN Append(before, [idx |-> n, url |-> urls[n], file_path |-> FilePath(n, urls[n])])
           ELSE before

NoNet == [meta |-> 0, resolver |-> 0, image |-> 0]

NoCall == [id |-> 0, title |-> << >>, volume |-> Null, chapter_number |-> Null]

ChIdle ==
  /\ cpc = "idle"
  /\ call = NoCall
  /\ max_workers = 1
  /\ image_urls = << >>
  /\ chapter_dir = << >>
  /\ download_tasks = << >>
  /\ tstate = << >>
  /\ retry_count = << >>
  /\ collected = {}
  /\ success_count = 0
  /\ net = NoNet
  /\ opened = {}
  /\ files0 = NoFiles

\* What client.chapter.get returns for a chapter called without its number: a
\* chapter that has neither a number nor a volume (a oneshot).
ChapterInfos == {[chapter |-> Null, volume |-> Null]}

\* The lists of page URLs the resolver can return for chapter id.
UrlLists(id) ==
  UNION {{[i \in 1..n |-> PageUrl(id, i, e[i])] : e \in [1..n -> Exts]} : n \in 0..MaxPages}

\* A mutant of download_chapter: the chapter directory is made before the URL
\* list is tested for being empty.
ChPrepareMkdirFirstMutant(urls) ==
  /\ cpc = "call"
  /\ \/ \* client.chapter.get raises
        /\ call.chapter_number = Null
        /\ net' = [net EXCEPT !.meta = @ + 1]
        /\ cpc' = "raised"
        /\ UNCHANGED <<call, root, image_urls, chapter_dir, download_tasks, tstate,
                       retry_count, files0>>
     \/ \E info \in ChapterInfos :
          LET looked == call.chapter_number = Null
              number == IF ~looked THEN call.chapter_number
                        ELSE IF info.chapter # Null THEN info.chapter ELSE "Unknown"
              volume == IF ~looked \/ call.volume # Null THEN call.volume ELSE info.volume
              dir    == GetChapterDir(call.title, volume, number)
              made   == MkDirs(root, dir)
              files  == FilesOf(made, dir)
              tasks  == BuildTasks(files, urls, Len(urls))
              metas  == IF looked THEN 1 ELSE 0
          IN  /\ looked \/ info = CHOOSE x \in ChapterInfos : TRUE
              /\ call' = [call EXCEPT !.chapter_number = number, !.volume = volume]
              /\ \/ \* at_home.get_image_urls raises
                    /\ net' = [net EXCEPT !.meta = @ + metas, !.resolver = @ + 1]
                    /\ cpc' = "raised"
                    /\ UNCHANGED <<root, image_urls, chapter_dir, download_tasks, tstate,
                                   retry_count, files0>>
                 \/ \* no images: DownloadException
                    /\ urls = << >>
                    /\ net' = [net EXCEPT !.meta = @ + metas, !.resolver = @ + 1]
                    /\ image_urls' = urls
                    /\ chapter_dir' = dir
                    /\ root' = made
                    /\ cpc' = "raised"
                    /\ UNCHANGED <<download_tasks, tstate, retry_count, files0>>
                 \/ \* chapter_dir.mkdir raises
                    /\ urls # << >>
                    /\ net' = [net EXCEPT !.meta = @ + metas, !.resolver = @ + 1]
                    /\ image_urls' = urls
                    /\ chapter_dir' = dir
                    /\ cpc' = "raised"
                    /\ UNCHANGED <<root, download_tasks, tstate, retry_count, files0>>
                 \/ \* the directory is there: skip rule, task list
                    /\ urls # << >>
                    /\ net' = [net EXCEPT !.meta = @ + metas, !.resolver = @ + 1]
                    /\ image_urls' = urls
                    /\ chapter_dir' = dir
                    /\ root' = made
                    /\ files0' = files
                    /\ IF SkipRule(files, urls) \/ tasks = << >>
                       THEN /\ cpc' = "returned"
                            /\ UNCHANGED <<download_tasks, tstate, retry_count>>
                       ELSE /\ cpc' = "pool"
                            /\ download_tasks' = tasks
                            /\ tstate' = [t \in DOMAIN tasks |-> "queued"]
                            /\ retry_count' = [t \in DOMAIN tasks |-> 0]
  /\ UNCHANGED <<max_workers, collected, success_count, opened>>
  /\ UNCHANGED <<recVars, orchVars>>
  /\ UNCHANGED httpVars

\* download_chapter up to the thread pool: the chapter lookup, the page resolver
\* call, the directory, the skip rule and the task list.  `urls` is what the
\* resolver answers when its request succeeds.
ChPrepare(urls) ==
  /\ cpc = "call"
  /\ \/ \* client.chapter.get raises
        /\ call.chapter_number = Null
        /\ net' = [net EXCEPT !.meta = @ + 1]
        /\ cpc' = "raised"
        /\ UNCHANGED <<call, root, image_urls, chapter_dir, download_tasks, tstate,
                       retry_count, files0>>
     \/ \E info \in ChapterInfos :
          LET looked == call.chapter_number = Null
              number == IF ~looked THEN call.chapter_number
                        ELSE IF info.chapter # Null THEN info.chapter ELSE "Unknown"
              volume == IF ~looked \/ call.volume # Null THEN call.volume ELSE info.volume
              dir    == GetChapterDir(call.title, volume, number)
              made   == MkDirs(root, dir)
              files  == FilesOf(made, dir)
              tasks  == BuildTasks(files, urls, Len(urls))
              metas  == IF looked THEN 1 ELSE 0
          IN  /\ looked \/ info = CHOOSE x \in ChapterInfos : TRUE
              /\ call' = [call EXCEPT !.chapter_number = number, !.volume = volume]
              /\ \/ \* at_home.get_image_urls raises
                    /\ net' = [net EXCEPT !.meta = @ + metas, !.resolver = @ + 1]
                    /\ cpc' = "raised"
                    /\ UNCHANGED <<root, image_urls, chapter_dir, download_tasks, tstate,
                                   retry_count, files0>>
                 \/ \* no images: DownloadException
                    /\ urls = << >>
                    /\ net' = [net EXCEPT !.meta = @ + metas, !.resolver = @ + 1]
                    /\ image_urls' = urls
                    /\ cpc' = "raised"
                    /\ UNCHANGED <<root, chapter_dir, download_tasks, tstate,
                                   retry_count, files0>>
                 \/ \* chapter_dir.mkdir raises
                    /\ urls # << >>
                    /\ net' = [net EXCEPT !.meta = @ + metas, !.resolver = @ + 1]
                    /\ image_urls' = urls
                    /\ chapter_dir' = dir
                    /\ cpc' = "raised"
                    /\ UNCHANGED <<root, download_tasks, tstate, retry_count, files0>>
                 \/ \* the directory is there: skip rule, task list
                    /\ urls # << >>
                    /\ net' = [net EXCEPT !.meta = @ + metas, !.resolver = @ + 1]
                    /\ image_urls' = urls
                    /\ chapter_dir' = dir
                    /\ root' = made
                    /\ files0' = files
                    /\ IF SkipRule(files, urls) \/ tasks = << >>
                       THEN /\ cpc' = "returned"
                            /\ UNCHANGED <<download_tasks, tstate, retry_count>>
                       ELSE /\ cpc' = "pool"
                            /\ download_tasks' = tasks
                            /\ tstate' = [t \in DOMAIN tasks |-> "queued"]
                            /\ retry_count' = [t \in DOMAIN tasks |-> 0]
  /\ UNCHANGED <<max_workers, collected, success_count, opened>>
  /\ UNCHANGED <<recVars, orchVars>>
  /\ UNCHANGED httpVars

Running(t) == tstate[t] = "running"

\* A mutant of the pool: it runs every submitted task at once.
UnboundedPoolMutant == TRUE

\* A worker of the pool takes the next submitted task.
PoolHasFreeWorker == Cardinality({t \in DOMAIN tstate : Running(t)}) < max_workers

WorkerTake(t) ==
  /\ cpc = "pool"
  /\ tstate[t] = "queued"
  /\ \A u \in 1..(t - 1) : tstate[u] # "queued"
  /\ PoolHasFreeWorker
  /\ tstate' = [tstate EXCEPT ![t] = "running"]
  /\ UNCHANGED <<root, call, cpc, max_workers, image_urls, chapter_dir, download_tasks,
                 retry_count, collected, success_count, net, opened, files0>>
  /\ UNCHANGED <<recVars, orchVars>>
  /\ UNCHANGED httpVars

\* A mutant of the retry test: `retry_count <= MAX_RETRIES`, one call more.
AfterFailureOneMoreMutant(t) ==
  IF retry_count[t] <= MaxRetries
  THEN /\ retry_count' = [retry_count EXCEPT ![t] = @ + 1]
       /\ UNCHANGED tstate
  ELSE /\ tstate' = [tstate EXCEPT ![t] = "failed"]
       /\ UNCHANGED retry_count

\* `except Exception`: another call while retry_count < MAX_RETRIES, else False
AfterFailure(t) ==
  IF retry_count[t] < MaxRetries
  THEN /\ retry_count' = [retry_count EXCEPT ![t] = @ + 1]
       /\ UNCHANGED tstate
  ELSE /\ tstate' = [tstate EXCEPT ![t] = "failed"]
       /\ UNCHANGED retry_count

\* One call of _download_image for task t, up to its return or its recursive
\* call: the request, then open(file_path, "wb") and f.write(response.content).
\* The request or the open raises (nothing is written), the write raises (the
\* file is left cut short), or all succeed.
DownloadImage(t) ==
  /\ cpc = "pool"
  /\ tstate[t] = "running"
  /\ net' = [net EXCEPT !.image = @ + 1]
  /\ \/ /\ AfterFailure(t)
        /\ UNCHANGED <<root, opened>>
     \/ /\ AfterFailure(t)
        /\ root' = PutFile(root, chapter_dir, download_tasks[t].file_path,
                           Partial(Content(download_tasks[t].url)))
        /\ opened' = opened \cup {<<download_tasks[t].idx, download_tasks[t].file_path>>}
     \/ /\ root' = PutFile(root, chapter_dir, download_tasks[t].file_path,
                           Content(download_tasks[t].url))
        /\ opened' = opened \cup {<<download_tasks[t].idx, download_tasks[t].file_path>>}
        /\ tstate' = [tstate EXCEPT ![t] = "ok"]
        /\ UNCHANGED retry_count
  /\ UNCHANGED <<call, cpc, max_workers, image_urls, chapter_dir, download_tasks,
                 collected, success_count, files0>>
  /\ UNCHANGED <<recVars, orchVars>>
  /\ UNCHANGED httpVars

\* one turn of `for future in as_completed(futures)`
Collect(t) ==
  /\ cpc = "pool"
  /\ tstate[t] \in {"ok", "failed"}
  /\ t \notin collected
  /\ collected' = collected \cup {t}
  /\ success_count' = IF tstate[t] = "ok" THEN success_count + 1 ELSE success_count
  /\ UNCHANGED <<root, call, cpc, max_workers, image_urls, chapter_dir, download_tasks,
                 tstate, retry_count, net, opened, files0>>
  /\ UNCHANGED <<recVars, orchVars>>
  /\ UNCHANGED httpVars

\* after the pool: a warning when success_count < len(download_tasks), and
\* `return chapter_dir` either way
AfterPool == "returned"

ChFinish ==
  /\ cpc = "pool"
  /\ collected = DOMAIN download_tasks
  /\ cpc' = AfterPool
  /\ UNCHANGED <<root, call, max_workers, image_urls, chapter_dir, download_tasks,
                 tstate, retry_count, collected, success_count, net, opened, files0>>
  /\ UNCHANGED <<recVars, orchVars>>
  /\ UNCHANGED httpVars

\* --------------------------- download_manga and download_chapter_range

\* The outcome of one _download_image task once its retries are over: the page
\* is written whole ("ok"), or every attempt failed, the file never opened
\* ("failed") or left cut short by the attempt that opened it ("partial").
TaskOutcomes == {"ok", "failed", "partial"}

\* The chapter directory after the pool has run the first n tasks to their end.
RECURSIVE RunTasks(_, _, _, _, _)
RunTasks(rt, dir, tasks, outcome, n) ==
  IF n = 0 THEN rt
  ELSE LET before == RunTasks(rt, dir, tasks, outcome, n - 1)
           task   == tasks[n]
       IN  CASE outcome[n] = "ok"      -> PutFile(before, dir, task.file_path, Content(task.url))
             [] outcome[n] = "partial" -> PutFile(before, dir, task.file_path,
                                                  Partial(Content(task.url)))
             [] OTHER                  -> before

\* download_chapter as one step of the chapter loop: every way the call c can
\* end on the download directory rt when the resolver lists urls and at most
\* `budget` of its requests and file operations fail.  `requested` is the set of
\* page positions an image request was made for.
DownloadChapter(rt, c, urls, budget) ==
  LET looked == c.chapter_number = Null
      Out(r, res, req, n, u) ==
        [root |-> r, result |-> res, requested |-> req, resolver |-> n, used |-> u]
      Resolved(info) ==
        LET number == IF ~looked THEN c.chapter_number
                      ELSE IF info.chapter # Null THEN info.chapter ELSE "Unknown"
            volume == IF ~looked \/ c.volume # Null THEN c.volume ELSE info.volume
            dir    == GetChapterDir(c.title, volume, number)
            made   == MkDirs(rt, dir)
            files  == FilesOf(made, dir)
            tasks  == BuildTasks(files, urls, Len(urls))
            failed(o) == Cardinality({t \in DOMAIN tasks : o[t] # "ok"})
        IN  IF urls = << >> THEN {Out(rt, "raised", {}, 1, 0)}
            ELSE (IF budget > 0 THEN {Out(rt, "raised", {}, 1, 1)} ELSE {})   \* mkdir raised
                 \cup
                 (IF SkipRule(files, urls) \/ tasks = << >>
                  THEN {Out(made, "returned", {}, 1, 0)}
                  ELSE {Out(RunTasks(made, dir, tasks, o, Len(tasks)), AfterPool,
                            {tasks[t].idx : t \in DOMAIN tasks}, 1, failed(o)) :
                          o \in {x \in [DOMAIN tasks -> TaskOutcomes] : failed(x) <= budget}})
  IN  (IF budget > 0
       THEN {Out(rt, "raised", {}, 1, 1)}                          \* the resolver raised
            \cup (IF looked THEN {Out(rt, "raised", {}, 0, 1)} ELSE {})   \* chapter.get raised
       ELSE {})
      \cup UNION {Resolved(info) : info \in IF looked THEN ChapterInfos
                                             ELSE {CHOOSE x \in ChapterInfos : TRUE}}

\* Python's None where the model has a sequence (a filter list, a title).
NoneSeq == <<Null>>

\* LocalizedString.get(language): "" when the language is missing
TitleGet(title, lang) == IF lang \in DOMAIN title THEN title[lang] ELSE << >>

\* `not x` for a string or a list that may be None
Falsy(str) == str = NoneSeq \/ str = << >>

\* list(manga.title.values.values())[0]: the title map's first entry
TitleOrder == <<"en", "ja", "ja-ro", "fr">>

FirstValue(title) ==
  title[TitleOrder[CHOOSE i \in DOMAIN TitleOrder :
                     /\ TitleOrder[i] \in DOMAIN title
                     /\ \A j \in 1..(i - 1) : TitleOrder[j] \notin DOMAIN title]]

\* f"Manga_{manga_id[:8]}"
FallbackTitle == <<"M", "a", "n", "g", "a", "_", "0">>

\* en, then ja, then ja-ro, then any, then the fallback
BestTitle(title) ==
  LET t1 == TitleGet(title, "en")
      t2 == IF Falsy(t1) THEN TitleGet(title, "ja") ELSE t1
      t3 == IF Falsy(t2) THEN TitleGet(title, "ja-ro") ELSE t2
      t4 == IF Falsy(t3) /\ DOMAIN title # {} THEN FirstValue(title) ELSE t3
  IN  IF Falsy(t4) THEN FallbackTitle ELSE t4

\* str.lower() on the characters of the model's directory names
LowerName(name) ==
  [i \in DOMAIN name |->
     CASE name[i] = "A" -> "a" [] name[i] = "B" -> "b" [] name[i] = "E" -> "e"
       [] name[i] = "N" -> "n" [] OTHER -> name[i]]

LangCodes == {<<"j", "a">>, <<"e", "n">>, <<"e", "s">>, <<"f", "r">>, <<"d", "e">>,
              <<"k", "o">>, <<"z", "h">>, <<"p", "t">>, <<"p", "t", "-", "b", "r">>}

\* A mutant of the name test: every directory name passes.
OldNameAnyMutant(name) == TRUE

\* `len(old_name) <= 3 or old_name in [...]`
OldNameLike(name) == Len(LowerName(name)) <= 3 \/ LowerName(name) \in LangCodes

\* any(d.name.startswith("Ch.") or d.name.startswith("Vol.") for d in iterdir())
HasChapters(t) ==
  \E p \in IterDir(t, << >>) : StartsWith(p[1], "Ch.") \/ StartsWith(p[1], "Vol.")

\* existing_dir.rename(manga_dir)
RenameTop(rt, old, new) ==
  [d \in (DOMAIN rt \ {old}) \cup {new} |-> IF d = new THEN rt[old] ELSE rt[d]]

\* The chapter list the catalog returns: the entries carry their ids.
CatalogList == [i \in DOMAIN remote |->
                  [id |-> i, volume |-> remote[i].volume, chapter |-> remote[i].chapter]]

\* `if volume_filter:` / `if chapter_filter:` and the two list comprehensions
ApplyVolumeFilterOnlyMutant(data, volume_filter, chapter_filter) ==
  LET InVol(ch) == ch.volume \in Range(volume_filter)
  IN  IF ~Falsy(volume_filter) THEN SelectSeq(data, InVol) ELSE data

ApplyFilters(data, volume_filter, chapter_filter) ==
  LET InVol(ch) == ch.volume \in Range(volume_filter)
      InCh(ch)  == ch.chapter \in Range(chapter_filter)
      byVol == IF ~Falsy(volume_filter) THEN SelectSeq(data, InVol) ELSE data
  IN  IF ~Falsy(chapter_filter) THEN SelectSeq(byVol, InCh) ELSE byVol

\* float(s) in tenths, for the chapter numbers of the model
FloatOf(s) == CASE s = "1" -> 10 [] s = "01" -> 10 [] s = "2" -> 20

\* float(None) raises TypeError
TypeError(s) == s = Null

\* the strings float() raises ValueError for
ValueError(s) == s \notin {"1", "01", "2", Null}

\* the loop that builds filtered_chapters
RangeFilter(data, start_chapter, end_chapter) ==
  LET InRange(ch) == /\ ~ValueError(ch.chapter)
                     /\ start_chapter <= FloatOf(ch.chapter)
                     /\ FloatOf(ch.chapter) <= end_chapter
  IN  SelectSeq(data, InRange)

\* The stats dictionary; download_chapter_range's has no "skipped" key.
NewStats(data, m) ==
  IF m = "manga"
  THEN [total_chapters |-> Len(data), downloaded |-> 0, failed |-> 0, skipped |-> 0]
  ELSE [total_chapters |-> Len(data), downloaded |-> 0, failed |-> 0]

NoStats == [total_chapters |-> 0, downloaded |-> 0, failed |-> 0]

\* stats["downloaded"] += 1 after the call returned, stats["failed"] += 1 in the
\* `except Exception` of the loop body
CountNothingOnFailureMutant(st, result) ==
  IF result = "returned" THEN [st EXCEPT !.downloaded = @ + 1] ELSE st

\* A mutant of the count: downloaded is raised before the call is made, failed
\* when it raises.
CountBeforeCallMutant(st, result) ==
  IF result = "returned" THEN [st EXCEPT !.downloaded = @ + 1]
  ELSE [st EXCEPT !.downloaded = @ + 1, !.failed = @ + 1]

CountChapter(st, result) ==
  IF result = "returned" THEN [st EXCEPT !.downloaded = @ + 1]
  ELSE [st EXCEPT !.failed = @ + 1]

\* the `for chapter_data in chapters_data` loop goes on after either
StopAtFailureMutant(i, n, result) == IF result = "raised" THEN n + 1 ELSE i + 1

NextChapter(i, n, result) == i + 1

NoRun1 == [over |-> FALSE, opc |-> "idle", stats |-> NoStats, faults |-> 0]

OrchIdle ==
  /\ opc = "idle"
  /\ mode = "manga"
  /\ request = [auto_update_structure |-> FALSE, volume_filter |-> NoneSeq,
                chapter_filter |-> NoneSeq, start_chapter |-> 0, end_chapter |-> 0]
  /\ manga = << >>
  /\ pages_of = << >>
  /\ manga_title = << >>
  /\ chapters_data = << >>
  /\ ci = 1
  /\ stats = NoStats
  /\ orun = 1
  /\ twice = FALSE
  /\ faults = 0
  /\ failure = "none"
  /\ attempts = << >>
  /\ stats1 = NoRun1

NoStructure == [order |-> << >>, vol |-> << >>]

RecInit ==
  /\ tool \in {"downloader", "script"}
  /\ manga_dir = RecMangaDir
  /\ root \in {(RecMangaDir :> t) : t \in InitTrees}
  /\ remote \in RemoteLists
  /\ rpc = "scan"
  /\ local_structure = << >>
  /\ api_structure = NoStructure
  /\ changes = << >>
  /\ pos = 1
  /\ run = 1
  /\ tree0 = MangaTree
  /\ errors = {}
  /\ moved_count = 0
  /\ skipped = {}
  /\ run1 = [over |-> FALSE, errors |-> {}, skipped |-> {}, moved |-> 0]
  /\ ChIdle
  /\ OrchIdle
  /\ HttpIdle

RecIdle ==
  /\ tool = "downloader"
  /\ rpc = "idle"
  /\ local_structure = << >>
  /\ api_structure = NoStructure
  /\ changes = << >>
  /\ pos = 1
  /\ run = 1
  /\ tree0 = << >>
  /\ errors = {}
  /\ moved_count = 0
  /\ skipped = {}
  /\ run1 = [over |-> FALSE, errors |-> {}, skipped |-> {}, moved |-> 0]

\* The two scanning loops.  An error raised by iterdir() ends the run.
RecScan ==
  /\ rpc = "scan"
  /\ \/ /\ rpc' = "done"
        /\ errors' = errors \cup {"scan"}
        /\ UNCHANGED local_structure
     \/ \E ls \in GetCurrentStructure(MangaTree) :
          /\ local_structure' = ls
          /\ rpc' = IF DOMAIN ls = {} /\ tool = "downloader" THEN "done" ELSE "fetch"
          /\ UNCHANGED errors
  /\ UNCHANGED <<tool, root, manga_dir, remote, api_structure, changes, pos, run,
                 tree0, moved_count, skipped, run1>>
  /\ UNCHANGED <<chVars, orchVars>>
  /\ UNCHANGED httpVars

\* A mutant of the catalog call: its error is noted and the diff is made and
\* applied all the same.
RecFetchGoesOnMutant ==
  /\ rpc = "fetch"
  /\ \/ /\ api_structure' = GetApiStructure(remote)
        /\ changes' = CompareStructures(local_structure, api_structure')
        /\ rpc' = IF changes' = << >> THEN "done" ELSE "apply"
        /\ errors' = errors \cup {"catalog"}
     \/ /\ api_structure' = GetApiStructure(remote)
        /\ changes' = CompareStructures(local_structure, api_structure')
        /\ rpc' = IF changes' = << >> THEN "done" ELSE "apply"
        /\ UNCHANGED errors
  /\ pos' = 1
  /\ UNCHANGED <<tool, root, manga_dir, remote, local_structure, run, tree0,
                 moved_count, skipped, run1>>
  /\ UNCHANGED <<chVars, orchVars>>
  /\ UNCHANGED httpVars

\* The catalog call and the diff.  An error raised by the call ends the run.
RecFetch ==
  /\ rpc = "fetch"
  /\ \/ /\ rpc' = "done"
        /\ errors' = errors \cup {"catalog"}
        /\ UNCHANGED <<api_structure, changes>>
     \/ /\ api_structure' = GetApiStructure(remote)
        /\ changes' = CompareStructures(local_structure, api_structure')
        /\ rpc' = IF changes' = << >> THEN "done" ELSE "apply"
        /\ UNCHANGED errors
  /\ pos' = 1
  /\ UNCHANGED <<tool, root, manga_dir, remote, local_structure, run, tree0,
                 moved_count, skipped, run1>>
  /\ UNCHANGED <<chVars, orchVars>>
  /\ UNCHANGED httpVars

\* One iteration of the loop over changes.
RecApply ==
  /\ rpc = "apply"
  /\ \E o \in ApplyChange(MangaTree, changes[pos], tool) :
       /\ root' = [root EXCEPT ![manga_dir] = o.tree]
       /\ moved_count' = IF o.moved THEN moved_count + 1 ELSE moved_count
       /\ skipped' = IF o.skipped THEN skipped \cup {changes[pos].chapter} ELSE skipped
       /\ errors' = IF o.error THEN errors \cup {"fs"} ELSE errors
  /\ pos' = pos + 1
  /\ rpc' = IF pos = Len(changes) THEN "done" ELSE "apply"
  /\ UNCHANGED <<tool, manga_dir, remote, local_structure, api_structure, changes,
                 run, tree0, run1>>
  /\ UNCHANGED <<chVars, orchVars>>
  /\ UNCHANGED httpVars

\* The reconciler is run again on the same directory, the catalog unchanged.
RecAgain ==
  /\ rpc = "done"
  /\ run = 1
  /\ run' = 2
  /\ run1' = [over |-> TRUE, errors |-> errors, skipped |-> skipped, moved |-> moved_count]
  /\ rpc' = "scan"
  /\ tree0' = MangaTree
  /\ local_structure' = << >>
  /\ api_structure' = NoStructure
  /\ changes' = << >>
  /\ pos' = 1
  /\ errors' = {}
  /\ moved_count' = 0
  /\ skipped' = {}
  /\ UNCHANGED <<tool, root, manga_dir, remote>>
  /\ UNCHANGED <<chVars, orchVars>>
  /\ UNCHANGED httpVars

RecNext == RecScan \/ RecFetch \/ RecApply \/ RecAgain

SpecRec == RecInit /\ [][RecNext]_vars

\* ------------------------------------------- download_chapter on its own

\* The names page files can have, and the files a chapter directory can hold
\* before the call (left there by earlier runs).
PageFileNames == {<<Pad3(i), e>> : i \in 1..MaxPages, e \in Exts}

ExistingFiles ==
  {[n \in names |-> <<0, n[1][3], 1>>] :
     names \in {ns \in SUBSET PageFileNames : \A m, n \in ns : m[1] = n[1] => m = n}}

\* Called with the chapter's volume and number, or with neither.
Calls == {[id |-> 1, title |-> TheTitle, volume |-> "1", chapter_number |-> "1"],
          [id |-> 1, title |-> TheTitle, volume |-> Null, chapter_number |-> Null]}

\* The directories the call can resolve to.
DirsOfCall(c) ==
  IF c.chapter_number # Null THEN {GetChapterDir(c.title, c.volume, c.chapter_number)}
  ELSE {GetChapterDir(c.title, IF c.volume # Null THEN c.volume ELSE info.volume,
                      IF info.chapter # Null THEN info.chapter ELSE "Unknown") :
          info \in ChapterInfos}

ChInit ==
  /\ RecIdle
  /\ manga_dir = RecMangaDir
  /\ remote = << >>
  /\ cpc = "call"
  /\ call \in Calls
  /\ max_workers \in {1, MaxWorkers}
  /\ root \in {<< >>} \cup
              {[MkDirs(<< >>, d) EXCEPT ![d[1]] = [@ EXCEPT ![d[2]] = f]] :
                 d \in DirsOfCall(call), f \in ExistingFiles}
  /\ image_urls = << >>
  /\ chapter_dir = << >>
  /\ download_tasks = << >>
  /\ tstate = << >>
  /\ retry_count = << >>
  /\ collected = {}
  /\ success_count = 0
  /\ net = NoNet
  /\ opened = {}
  /\ files0 = NoFiles
  /\ OrchIdle
  /\ HttpIdle

Prepare == \E urls \in UrlLists(call.id) : ChPrepare(urls)

Take == \E t \in DOMAIN tstate : WorkerTake(t)

Attempt == \E t \in DOMAIN tstate : DownloadImage(t)

Completed == \E t \in DOMAIN tstate : Collect(t)

ChNext == Prepare \/ Take \/ Attempt \/ Completed \/ ChFinish

SpecChapter == ChInit /\ [][ChNext]_vars

\* ------------------------------------------- the orchestrator's steps

\* An exception leaves download_manga (as DownloadException) or
\* download_chapter_range; `why` records where it was raised.
Raise(why) ==
  /\ opc' = "raised"
  /\ failure' = why

\* download_manga: client.manga.get and the title
OStart ==
  /\ opc = "start"
  /\ mode = "manga"
  /\ \/ /\ faults > 0
        /\ faults' = faults - 1
        /\ Raise("metadata")
        /\ UNCHANGED manga_title
     \/ /\ manga_title' = BestTitle(manga.title)
        /\ opc' = IF request.auto_update_structure THEN "legacy" ELSE "list"
        /\ UNCHANGED <<faults, failure>>
  /\ UNCHANGED <<root, recVars, chVars>>
  /\ UNCHANGED <<mode, request, manga, pages_of, chapters_data, ci, stats, orun, twice,
                 attempts, stats1>>
  /\ UNCHANGED httpVars

\* _update_volume_structure is entered for the manga directory `dir`
EnterReconciler(dir, rt) ==
  /\ rpc' = "scan"
  /\ manga_dir' = dir
  /\ tree0' = rt[dir]
  /\ errors' = {}
  /\ moved_count' = 0
  /\ skipped' = {}
  /\ UNCHANGED <<tool, remote, local_structure, api_structure, changes, pos, run, run1>>

\* _auto_update_structure up to its call of _update_volume_structure: the scan
\* of the download directory for a folder under an old name, and its rename.
\* Neither iterdir() is inside a try; the rename is.
OLegacy ==
  /\ opc = "legacy"
  /\ LET safe_title == SanitizeFilename(manga_title)
         eligible   == {d \in DOMAIN root : OldNameLike(d) /\ HasChapters(root[d])}
         Proceed(rt) == IF safe_title \in DOMAIN rt
                        THEN opc' = "reconcile" /\ EnterReconciler(safe_title, rt)
                        ELSE opc' = "list" /\ UNCHANGED recVars
     IN  IF safe_title \in DOMAIN root
         THEN /\ Proceed(root)
              /\ UNCHANGED <<root, faults, failure>>
         ELSE \/ \* download_dir.iterdir() or existing_dir.iterdir() raises
                 /\ faults > 0
                 /\ faults' = faults - 1
                 /\ Raise("legacy")
                 /\ UNCHANGED <<root, recVars>>
              \/ \* the first folder whose rename succeeds ends the loop
                 \E d \in eligible :
                   /\ root' = RenameTop(root, d, safe_title)
                   /\ Proceed(root')
                   /\ UNCHANGED <<faults, failure>>
              \/ \* no candidate, or every rename raised (and was caught)
                 /\ faults >= Cardinality(eligible)
                 /\ faults' = faults - Cardinality(eligible)
                 /\ Proceed(root)
                 /\ UNCHANGED <<root, failure>>
  /\ UNCHANGED chVars
  /\ UNCHANGED <<mode, request, manga, pages_of, manga_title, chapters_data, ci, stats,
                 orun, twice, attempts, stats1>>
  /\ UNCHANGED httpVars

\* _update_volume_structure has returned (it catches what its body raises)
ORecDone ==
  /\ opc = "reconcile"
  /\ rpc = "done"
  /\ opc' = "list"
  /\ rpc' = "idle"
  /\ local_structure' = << >>
  /\ api_structure' = NoStructure
  /\ changes' = << >>
  /\ pos' = 1
  /\ tree0' = << >>
  /\ errors' = {}
  /\ moved_count' = 0
  /\ skipped' = {}
  /\ UNCHANGED <<tool, manga_dir, remote, run, run1>>
  /\ UNCHANGED <<root, chVars>>
  /\ UNCHANGED <<mode, request, manga, pages_of, manga_title, chapters_data, ci, stats,
                 orun, twice, faults, failure, attempts, stats1>>
  /\ UNCHANGED httpVars

\* download_manga: get_chapters_list, the filters and the stats dictionary
OList ==
  /\ opc = "list"
  /\ LET filtered == ApplyFilters(CatalogList, request.volume_filter, request.chapter_filter)
     IN  \/ /\ faults > 0
            /\ faults' = faults - 1
            /\ Raise("catalog")
            /\ UNCHANGED <<chapters_data, stats>>
         \/ /\ CatalogList = << >>
            /\ Raise("no chapters")
            /\ UNCHANGED <<chapters_data, stats, faults>>
         \/ /\ CatalogList # << >>
            /\ filtered = << >>
            /\ Raise("no match")
            /\ UNCHANGED <<chapters_data, stats, faults>>
         \/ /\ filtered # << >>
            /\ chapters_data' = filtered
            /\ stats' = NewStats(filtered, mode)
            /\ opc' = "chapters"
            /\ UNCHANGED <<faults, failure>>
  /\ UNCHANGED <<root, recVars, chVars>>
  /\ UNCHANGED <<mode, request, manga, pages_of, manga_title, ci, orun, twice,
                 attempts, stats1>>
  /\ UNCHANGED httpVars

\* download_chapter_range up to its loop: get_chapters_list, the range filter,
\* client.manga.get, the title and the stats dictionary; nothing is caught
ORange ==
  /\ opc = "start"
  /\ mode = "range"
  /\ LET filtered == RangeFilter(CatalogList, request.start_chapter, request.end_chapter)
         unparsed == \E i \in DOMAIN CatalogList : TypeError(CatalogList[i].chapter)
     IN  \/ /\ faults > 0
            /\ faults' = faults - 1
            /\ Raise("catalog")
            /\ UNCHANGED <<manga_title, chapters_data, stats>>
         \/ \* float(None): only ValueError is caught in the loop
            /\ unparsed
            /\ Raise("TypeError")
            /\ UNCHANGED <<manga_title, chapters_data, stats, faults>>
         \/ /\ ~unparsed
            /\ faults > 0
            /\ faults' = faults - 1
            /\ Raise("metadata")
            /\ UNCHANGED <<manga_title, chapters_data, stats>>
         \/ /\ ~unparsed
            /\ manga_title' = BestTitle(manga.title)
            /\ chapters_data' = filtered
            /\ stats' = NewStats(filtered, mode)
            /\ opc' = IF filtered = << >> THEN "done" ELSE "chapters"
            /\ UNCHANGED <<faults, failure>>
  /\ UNCHANGED <<root, recVars, chVars>>
  /\ UNCHANGED <<mode, request, manga, pages_of, ci, orun, twice, attempts, stats1>>
  /\ UNCHANGED httpVars

\* Whether the directory download_chapter resolves for the call already holds
\* as many files as the chapter has pages.
DirComplete(rt, c, urls) ==
  LET dir == GetChapterDir(c.title, c.volume, c.chapter_number)
  IN  DirExists(rt, dir) /\ GlobCount(FilesOf(rt, dir)) = Len(urls)

\* One turn of the chapter loop of either function.
OChapter ==
  /\ opc = "chapters"
  /\ LET chapter_data == chapters_data[ci]
         c == [id |-> chapter_data.id, title |-> manga_title,
               volume |-> chapter_data.volume, chapter_number |-> chapter_data.chapter]
         urls == pages_of[chapter_data.id]
     IN  \E o \in DownloadChapter(root, c, urls, faults) :
           /\ root' = o.root
           /\ faults' = faults - o.used
           /\ stats' = CountChapter(stats, o.result)
           /\ ci' = NextChapter(ci, Len(chapters_data), o.result)
           /\ opc' = IF ci' > Len(chapters_data) THEN "done" ELSE "chapters"
           /\ attempts' = Append(attempts,
                                 [id |-> chapter_data.id,
                                  complete |-> DirComplete(root, c, urls),
                                  requested |-> o.requested,
                                  result |-> o.result])
  /\ UNCHANGED <<recVars, chVars>>
  /\ UNCHANGED <<mode, request, manga, pages_of, manga_title, chapters_data, orun, twice,
                 failure, stats1>>
  /\ UNCHANGED httpVars

\* The same call is made again, the catalog unchanged.
OAgain ==
  /\ opc \in {"done", "raised"}
  /\ twice
  /\ orun = 1
  /\ orun' = 2
  /\ stats1' = [over |-> TRUE, opc |-> opc, stats |-> stats, faults |-> faults]
  /\ opc' = "start"
  /\ manga_title' = << >>
  /\ chapters_data' = << >>
  /\ ci' = 1
  /\ stats' = NoStats
  /\ failure' = "none"
  /\ attempts' = << >>
  /\ UNCHANGED <<root, recVars, chVars>>
  /\ UNCHANGED <<mode, request, manga, pages_of, twice, faults>>
  /\ UNCHANGED httpVars

\* The page lists of the orchestration runs: n pages, all of one extension.
PagesOf(id, n, ext) == [i \in 1..n |-> PageUrl(id, i, ext)]

NoFilters(auto) ==
  [auto_update_structure |-> auto, volume_filter |-> NoneSeq, chapter_filter |-> NoneSeq,
   start_chapter |-> 0, end_chapter |-> 0]

OrchStart ==
  /\ RecIdle
  /\ ChIdle
  /\ manga_dir = << >>
  /\ opc = "start"
  /\ manga_title = << >>
  /\ chapters_data = << >>
  /\ ci = 1
  /\ stats = NoStats
  /\ orun = 1
  /\ faults = MaxFaults
  /\ failure = "none"
  /\ attempts = << >>
  /\ stats1 = NoRun1
  /\ HttpIdle

\* The download directories of the structure runs: empty, or one directory --
\* under the manga's name, under a language code or short name, or under
\* another name -- that holds at most one chapter; or two directories.
SmallTrees == {TreeOf(slots) : slots \in {s \in SUBSET Slots : Cardinality(s) <= 1}}

TopNames == {RecMangaDir, <<"E">>, <<"E", "N">>, <<"A", "B", "E", "N">>}

\* Two directories side by side, each with one chapter: a one-letter name next
\* to a language code or next to a longer name.
PairRoots ==
  {(<<"E">> :> TreeOf({<<Null, "1">>})) @@ (d :> TreeOf({<<Null, "1">>})) :
     d \in {<<"E", "N">>, <<"A", "B", "E", "N">>}}

StructureRoots == {<< >>} \cup {(d :> t) : d \in TopNames, t \in SmallTrees} \cup PairRoots

\* download_manga with auto-reconciliation over every small directory and
\* every catalog.
InitStructure ==
  /\ OrchStart
  /\ mode = "manga"
  /\ twice = FALSE
  /\ request = NoFilters(TRUE)
  /\ manga = [title |-> ("en" :> TheTitle)]
  /\ root \in StructureRoots
  /\ remote \in RemoteLists
  /\ pages_of = [i \in DOMAIN remote |-> PagesOf(i, 1, "jpg")]

\* The catalogs of the fetching runs: the first chapters of one list.
FetchCatalog == <<[volume |-> Null, chapter |-> "1"], [volume |-> "1", chapter |-> "2"],
                  [volume |-> "1", chapter |-> "1"], [volume |-> Null, chapter |-> "2"]>>

FetchLists == {SubSeq(FetchCatalog, 1, n) : n \in 0..MaxRemote}

\* Each chapter has no page, one page or MaxPages pages.
FetchPages(list) ==
  {[i \in DOMAIN list |-> PagesOf(i, n[i], "jpg")] : n \in [DOMAIN list -> {0, 1, MaxPages}]}

\* The download directory is empty or holds the first chapter, one file in it.
FetchRoots == {<< >>, (RecMangaDir :> TreeOf({<<Null, "1">>}))}

\* download_manga run twice
InitFetch ==
  /\ OrchStart
  /\ mode = "manga"
  /\ twice = TRUE
  /\ request = NoFilters(TRUE)
  /\ manga = [title |-> ("en" :> TheTitle)]
  /\ root \in FetchRoots
  /\ remote \in FetchLists
  /\ pages_of \in FetchPages(remote)

\* download_chapter_range
InitRange ==
  /\ OrchStart
  /\ mode = "range"
  /\ twice = FALSE
  /\ request \in {[NoFilters(FALSE) EXCEPT !.start_chapter = st, !.end_chapter = 20] :
                    st \in {10, 15}}
  /\ manga = [title |-> ("en" :> TheTitle)]
  /\ root \in FetchRoots
  /\ remote \in FetchLists
  /\ pages_of \in FetchPages(remote)

\* download_manga under every filter, the chapters having one page each.
FilterEntries == [volume : {Null, "1"}, chapter : ChapterNums]

Requests ==
  {[NoFilters(FALSE) EXCEPT !.volume_filter = vf, !.chapter_filter = cf] :
     vf \in {NoneSeq, << >>, <<"1">>}, cf \in {NoneSeq, <<"2">>, <<"1", "2">>}}

InitFilters ==
  /\ OrchStart
  /\ mode = "manga"
  /\ twice = FALSE
  /\ request \in Requests
  /\ manga = [title |-> ("en" :> TheTitle)]
  /\ root = << >>
  /\ remote \in DistinctSeqs(FilterEntries, MaxRemote)
  /\ pages_of = [i \in DOMAIN remote |-> PagesOf(i, 1, "jpg")]

\* Either function under every title map, the catalog listing one chapter.
TitleMaps == {("en" :> TheTitle), ("ja" :> <<"B">>) @@ ("en" :> << >>),
              ("fr" :> <<"E", "N">>), << >>}

InitTitles ==
  /\ OrchStart
  /\ mode \in {"manga", "range"}
  /\ twice = FALSE
  /\ request = [NoFilters(mode = "manga") EXCEPT !.start_chapter = 10, !.end_chapter = 20]
  /\ manga \in {[title |-> m] : m \in TitleMaps}
  /\ root \in {<< >>, (<<"E", "N">> :> TreeOf({<<Null, "1">>}))}
  /\ remote = SubSeq(FetchCatalog, 1, 1)
  /\ pages_of = [i \in DOMAIN remote |-> PagesOf(i, 1, "jpg")]

\* Catalogs that list two chapters under one chapter number, both without an
\* assigned volume (unassigned, or a sentinel string): _get_chapter_dir gives
\* both the same directory.
CollidingLists ==
  {<<[volume |-> v, chapter |-> c], [volume |-> w, chapter |-> c]>> :
     v \in {Null}, w \in {"None"}, c \in ChapterNums}

InitCollide ==
  /\ OrchStart
  /\ mode = "manga"
  /\ twice = FALSE
  /\ request = NoFilters(FALSE)
  /\ manga = [title |-> ("en" :> TheTitle)]
  /\ root = << >>
  /\ remote \in CollidingLists
  /\ pages_of \in FetchPages(remote)

\* download_chapter_range over catalogs whose chapter numbers are numeric
\* ("1", "01", "2"), not numeric ("extra") or missing (None).
RangeEntries == [volume : {Null}, chapter : {"1", "01", "2", "extra", Null}]

InitRangeNumbers ==
  /\ OrchStart
  /\ mode = "range"
  /\ twice = FALSE
  /\ request \in {[NoFilters(FALSE) EXCEPT !.start_chapter = st, !.end_chapter = 20] :
                    st \in {10, 15}}
  /\ manga = [title |-> ("en" :> TheTitle)]
  /\ root = << >>
  /\ remote \in DistinctSeqs(RangeEntries, MaxRemote)
  /\ pages_of = [i \in DOMAIN remote |-> PagesOf(i, 1, "jpg")]

\* download_chapter_range by a DownloadManager built with auto_update_structure.
InitRangeAuto ==
  /\ OrchStart
  /\ mode = "range"
  /\ twice = FALSE
  /\ request = [NoFilters(TRUE) EXCEPT !.start_chapter = 10, !.end_chapter = 20]
  /\ manga = [title |-> ("en" :> TheTitle)]
  /\ root \in FetchRoots
  /\ remote \in FetchLists
  /\ pages_of \in FetchPages(remote)

Init ==
  \/ InitStructure
  \/ InitFetch
  \/ InitRange
  \/ InitFilters
  \/ InitTitles
  \/ InitCollide
  \/ InitRangeNumbers
  \/ InitRangeAuto

Next ==
  \/ OStart
  \/ OLegacy
  \/ RecScan
  \/ RecFetch
  \/ RecApply
  \/ ORecDone
  \/ OList
  \/ ORange
  \/ OChapter
  \/ OAgain

Spec == Init /\ [][Next]_vars

\* ----------------------- download_chapter interrupted, then called again

\* One call on an empty download directory; the resolver lists the same pages
\* for the chapter whenever it is asked.
IntInit ==
  /\ RecIdle
  /\ manga_dir = RecMangaDir
  /\ remote = << >>
  /\ root = << >>
  /\ cpc = "call"
  /\ call = [id |-> 1, title |-> TheTitle, volume |-> "1", chapter_number |-> "1"]
  /\ max_workers \in {1, MaxWorkers}
  /\ image_urls = << >>
  /\ chapter_dir = << >>
  /\ download_tasks = << >>
  /\ tstate = << >>
  /\ retry_count = << >>
  /\ collected = {}
  /\ success_count = 0
  /\ net = NoNet
  /\ opened = {}
  /\ files0 = NoFiles
  /\ opc = "idle"
  /\ mode = "manga"
  /\ request = NoFilters(FALSE)
  /\ manga = << >>
  /\ pages_of \in {(1 :> urls) : urls \in UrlLists(1)}
  /\ manga_title = << >>
  /\ chapters_data = << >>
  /\ ci = 1
  /\ stats = NoStats
  /\ orun = 1
  /\ twice = FALSE
  /\ faults = 0
  /\ failure = "none"
  /\ attempts = << >>
  /\ stats1 = NoRun1
  /\ HttpIdle

IntPrepare == \E urls \in {pages_of[call.id]} : ChPrepare(urls)

\* The process is killed while the pool is at work.  A worker that is inside
\* open(file_path, "wb") ... f.write(response.content) at that moment leaves its
\* file with part of the bytes; the others leave the directory as it is.
Interrupt ==
  /\ cpc = "pool"
  /\ orun = 1
  /\ \E writing \in SUBSET {t \in DOMAIN tstate : Running(t)} :
       LET RECURSIVE Cut(_)
           Cut(n) == IF n = 0 THEN root
                     ELSE IF n \in writing
                          THEN PutFile(Cut(n - 1), chapter_dir, download_tasks[n].file_path,
                                       Partial(Content(download_tasks[n].url)))
                          ELSE Cut(n - 1)
       IN  root' = Cut(Len(download_tasks))
  /\ cpc' = "killed"
  /\ UNCHANGED <<call, max_workers, image_urls, chapter_dir, download_tasks, tstate,
                 retry_count, collected, success_count, net, opened, files0>>
  /\ UNCHANGED <<recVars, orchVars>>
  /\ UNCHANGED httpVars

\* The next run of the program calls download_chapter for the chapter again.
CallAgain ==
  /\ cpc = "killed"
  /\ orun' = 2
  /\ cpc' = "call"
  /\ image_urls' = << >>
  /\ chapter_dir' = << >>
  /\ download_tasks' = << >>
  /\ tstate' = << >>
  /\ retry_count' = << >>
  /\ collected' = {}
  /\ success_count' = 0
  /\ net' = NoNet
  /\ opened' = {}
  /\ files0' = NoFiles
  /\ UNCHANGED <<root, call, max_workers, recVars>>
  /\ UNCHANGED <<opc, mode, request, manga, pages_of, manga_title, chapters_data, ci,
                 stats, twice, faults, failure, attempts, stats1>>
  /\ UNCHANGED httpVars

IntNext == IntPrepare \/ Take \/ Attempt \/ Completed \/ ChFinish \/ Interrupt \/ CallAgain

SpecInterrupt == IntInit /\ [][IntNext]_vars

\* ------------------------------------------------- the chapter path, by character

\* Here a string is the sequence of its characters and a path is the sequence
\* of its components (pathlib.PurePath.parts without the anchor).
MaxTitleLen == 2

TitleChars == {"A", ":", "?", " ", "_", "/", "."}

\* All strings over S of length at most n.
Strs(S, n) == UNION {[1..k -> S] : k \in 0..n}

\* str.lower(), on the letters the model's strings have
LowerChar(c) ==
  CASE c = "N" -> "n" [] c = "O" -> "o" [] c = "E" -> "e"
    [] c = "U" -> "u" [] c = "L" -> "l" [] OTHER -> c

StrLower(str) == [i \in DOMAIN str |-> LowerChar(str[i])]

\* ["none", "null", ""]
NoVolumeStrings == {<<"n", "o", "n", "e">>, <<"n", "u", "l", "l">>, << >>}

\* The truth value of an Optional[str]: None and "" are false.
StrTruthy(str) == str # NoneSeq /\ str # << >>

\* The parts of one path segment: split at "/", with the empty and the "."
\* parts left out, as PurePath parses it.
RECURSIVE PartsFrom(_, _)
PartsFrom(str, part) ==
  LET done == IF part \in {<< >>, <<".">>} THEN << >> ELSE <<part>>
  IN  IF str = << >> THEN done
      ELSE IF str[1] = "/" THEN done \o PartsFrom(Tail(str), << >>)
      ELSE PartsFrom(Tail(str), Append(part, str[1]))

Parts(str) == PartsFrom(str, << >>)

\* path / segment, for a segment that does not begin with "/"
Div(path, segment) == path \o Parts(segment)

VolPrefix == <<"V", "o", "l", ".">>

ChPrefix == <<"C", "h", ".">>

\* A mutant of _get_chapter_dir: the volume is compared without lower().
ChapterDirCaseSensitiveMutant(download_dir, title, volume, chapter) ==
  LET safe_title == SanitizeFilename(title)
  IN  IF StrTruthy(volume) /\ volume \notin NoVolumeStrings
      THEN Div(Div(Div(download_dir, safe_title), VolPrefix \o volume), ChPrefix \o chapter)
      ELSE Div(Div(download_dir, safe_title), ChPrefix \o chapter)

\* DownloadManager._get_chapter_dir, on strings of characters
get_chapter_dir(download_dir, title, volume, chapter) ==
  LET safe_title == SanitizeFilename(title)
  IN  IF StrTruthy(volume) /\ StrLower(volume) \notin NoVolumeStrings
      THEN Div(Div(Div(download_dir, safe_title), VolPrefix \o volume), ChPrefix \o chapter)
      ELSE Div(Div(download_dir, safe_title), ChPrefix \o chapter)

PathTitles == Strs(TitleChars, MaxTitleLen)

PathVolumes ==
  {NoneSeq, << >>, <<"n", "o", "n", "e">>, <<"N", "o", "n", "e">>, <<"N", "U", "L", "L">>,
   <<"n", "u", "l">>, <<"1">>, <<"2">>}

PathChapters == {<<"1">>, <<"2">>, <<"1", "0">>}

DownloadDirs == {<<<<"d">>>>, <<<<"d">>, <<"m">>>>}

NoPath == <<<<Null>>>>

\* _get_chapter_dir called on its own, for every title, volume and chapter of
\* the model; `call` holds the arguments, `chapter_dir` the returned path.
PathInit ==
  /\ RecIdle
  /\ manga_dir = << >>
  /\ remote = << >>
  /\ OrchIdle
  /\ root = << >>
  /\ cpc = "path"
  /\ call \in [download_dir : DownloadDirs, manga_title : PathTitles,
               volume : PathVolumes, chapter : PathChapters]
  /\ max_workers = 1
  /\ image_urls = << >>
  /\ chapter_dir = NoPath
  /\ download_tasks = << >>
  /\ tstate = << >>
  /\ retry_count = << >>
  /\ collected = {}
  /\ success_count = 0
  /\ net = NoNet
  /\ opened = {}
  /\ files0 = NoFiles
  /\ HttpIdle

ResolvePath ==
  /\ cpc = "path"
  /\ chapter_dir' = get_chapter_dir(call.download_dir, call.manga_title, call.volume,
                                    call.chapter)
  /\ cpc' = "resolved"
  /\ UNCHANGED <<root, call, max_workers, image_urls, download_tasks, tstate, retry_count,
                 collected, success_count, net, opened, files0, recVars, orchVars>>
  /\ UNCHANGED httpVars

PathNext == ResolvePath

SpecPath == PathInit /\ [][PathNext]_vars

\* ------------------------------------------------------ the interactive CLI

\* What the user types at the prompts of CLI.get_download_options is a string
\* of characters; the range prompt's answer has at most MaxRangeLen of them.
MaxRangeLen == 3

RangeChars == {"1", "2", "a", "-"}

\* str.split("-"): the pieces between the dashes, empty ones included
RECURSIVE SplitFrom(_, _)
SplitFrom(str, piece) ==
  IF str = << >> THEN <<piece>>
  ELSE IF str[1] = "-" THEN <<piece>> \o SplitFrom(Tail(str), << >>)
  ELSE SplitFrom(Tail(str), Append(piece, str[1]))

SplitDash(str) == SplitFrom(str, << >>)

\* float(s) raises ValueError unless s is a number; the numbers of the model
\* are the non-empty strings of digits
FloatFails(str) == str = << >> \/ \E i \in DOMAIN str : str[i] \notin {"1", "2"}

\* float(s) of a string of digits, in tenths
RECURSIVE FloatOfDigits(_)
FloatOfDigits(str) ==
  IF str = << >> THEN 0
  ELSE 10 * FloatOfDigits(SubSeq(str, 1, Len(str) - 1))
       + (IF str[Len(str)] = "1" THEN 10 ELSE 20)

\* [x.strip() for x in input.split(",")] of an answer without a comma
OneItem(str) == <<Strip(str)>>

NoRange == [given |-> FALSE, start |-> 0, end |-> 0]

\* CLI.get_download_options, the range prompt: `if range_input and "-" in
\* range_input`, the unpacking of split("-") into two names and float() of
\* both; a ValueError prints a warning and leaves the options without a range.
ParseRange(range_input) ==
  LET pieces == SplitDash(range_input)
  IN  IF range_input # << >> /\ \E i \in DOMAIN range_input : range_input[i] = "-"
      THEN IF Len(pieces) # 2 \/ FloatFails(Strip(pieces[1])) \/ FloatFails(Strip(pieces[2]))
           THEN [range |-> NoRange, said |-> "warning"]
           ELSE [range |-> [given |-> TRUE, start |-> FloatOfDigits(Strip(pieces[1])),
                            end |-> FloatOfDigits(Strip(pieces[2]))],
                 said |-> "none"]
      ELSE [range |-> NoRange, said |-> "none"]

\* The keys of the options dictionary that decide which download is called.
OptionKeys(options) ==
  {"volume_filter", "chapter_filter"} \cup
  (IF options.chapter_range.given THEN {"chapter_range"} ELSE {})

\* The answers to the volume, chapter and range prompts.  The range prompt is
\* shown only when no chapter filter was typed.
CliInputs ==
  {a \in [volume_input : {<< >>, <<"1">>}, chapter_input : {<< >>, <<"1">>},
          range_input : Strs(RangeChars, MaxRangeLen)] :
     a.chapter_input # << >> => a.range_input = << >>}

\* CLI.download_manga at its entry: `request` holds the answers the user will
\* type and the options made of them.
CliInit ==
  /\ RecIdle
  /\ manga_dir = << >>
  /\ remote = << >>
  /\ ChIdle
  /\ root = << >>
  /\ opc = "options"
  /\ mode = "manga"
  /\ \E a \in CliInputs :
        request = [typed |-> a, volume_filter |-> NoneSeq, chapter_filter |-> NoneSeq,
                   chapter_range |-> NoRange]
  /\ manga = << >>
  /\ pages_of = << >>
  /\ manga_title = << >>
  /\ chapters_data = << >>
  /\ ci = 1
  /\ stats = NoStats
  /\ orun = 1
  /\ twice = FALSE
  /\ faults = 0
  /\ failure = "none"
  /\ attempts = << >>
  /\ stats1 = NoRun1
  /\ HttpIdle

\* CLI.get_download_options
GetDownloadOptions ==
  /\ opc = "options"
  /\ LET a      == request.typed
         parsed == IF a.chapter_input = << >> THEN ParseRange(a.range_input)
                   ELSE [range |-> NoRange, said |-> "none"]
     IN  /\ request' =
              [request EXCEPT
                 !.volume_filter = IF a.volume_input # << >> THEN OneItem(a.volume_input)
                                   ELSE @,
                 !.chapter_filter = IF a.chapter_input # << >> THEN OneItem(a.chapter_input)
                                    ELSE @,
                 !.chapter_range = parsed.range]
         /\ failure' = parsed.said
  /\ opc' = "dispatch"
  /\ UNCHANGED <<mode, manga, pages_of, manga_title, chapters_data, ci, stats, orun, twice,
                 faults, attempts, stats1>>
  /\ UNCHANGED <<root, recVars, chVars>>
  /\ UNCHANGED httpVars

\* CLI.download_manga after the options: download_chapter_range is called when
\* the options hold a range and download_manga with the two filters when they
\* do not.
CliDownload ==
  /\ opc = "dispatch"
  /\ opc' = "start"
  /\ mode' = IF "chapter_range" \in OptionKeys(request) THEN "range" ELSE "manga"
  /\ UNCHANGED <<request, manga, pages_of, manga_title, chapters_data, ci, stats, orun,
                 twice, faults, failure, attempts, stats1>>
  /\ UNCHANGED <<root, recVars, chVars>>
  /\ UNCHANGED httpVars

CliNext == GetDownloadOptions \/ CliDownload

SpecCli == CliInit /\ [][CliNext]_vars

\* ------------------------------------------------- HTTPClient._handle_response

\* The status codes of the model: each code the function names, the ends of
\* the 5xx interval and codes on either side of them.
StatusCodes == {200, 201, 204, 302, 400, 401, 403, 404, 418, 429, 499, 500, 503, 599, 600}

\* response.headers.get("Retry-After"): None when the header is absent,
\* otherwise its value, a string of characters (seconds, or an HTTP date).
RetryAfterValues ==
  {NoneSeq, << >>, <<"0">>, <<"5">>, <<"6", "0">>, <<"1", ".", "5">>, <<"W", "e", "d">>}

\* The bodies of the model: no content, a JSON object without error fields,
\* {"errors": [{"detail": ...}]}, {"errors": ["..."]}, {"message": ...}, a JSON
\* array, and content that is not JSON.
Bodies == {"<empty>", "object", "errors", "error strings", "message", "array", "not json"}

DigitChars == {"0", "1", "2", "3", "4", "5", "6", "7", "8", "9"}

DigitValue(c) ==
  CASE c = "0" -> 0 [] c = "1" -> 1 [] c = "2" -> 2 [] c = "3" -> 3 [] c = "4" -> 4
    [] c = "5" -> 5 [] c = "6" -> 6 [] c = "7" -> 7 [] c = "8" -> 8 [] c = "9" -> 9

\* int(s) raises ValueError unless s is a string of digits
IntFails(str) == str = << >> \/ \E i \in DOMAIN str : str[i] \notin DigitChars

RECURSIVE IntOf(_)
IntOf(str) ==
  IF str = << >> THEN 0
  ELSE 10 * IntOf(SubSeq(str, 1, Len(str) - 1)) + DigitValue(str[Len(str)])

\* `data = response.json() if response.content else {}`, {"content": text}
\* when json() raises ValueError
DataOf(body) ==
  CASE body = "<empty>" -> "{}"
    [] body = "not json" -> "{content}"
    [] OTHER -> body

\* isinstance(data, dict)
IsDict(data) == data # "array"

\* the error message: errors[0].get("detail") raises AttributeError when
\* errors[0] is a string
MessageFails(data) == IsDict(data) /\ data = "error strings"

Returned(data) == [kind |-> "returned", value |-> data, retry_after |-> [set |-> FALSE, seconds |-> 0]]

Raised(type) == [kind |-> "raised", value |-> type, retry_after |-> [set |-> FALSE, seconds |-> 0]]

RateLimited(retry) == [kind |-> "raised", value |-> "RateLimitException", retry_after |-> retry]

\* HTTPClient._handle_response
handle_response(resp) ==
  LET data   == DataOf(resp.body)
      status == resp.status_code
      retry  == resp.retry_after
  IN  IF status = 200 THEN Returned(data)
      ELSE IF MessageFails(data) THEN Raised("AttributeError")
      ELSE IF status = 400 THEN Raised("ValidationException")
      ELSE IF status = 401 THEN Raised("AuthenticationException")
      ELSE IF status = 403 THEN Raised("AuthorizationException")
      ELSE IF status = 404 THEN Raised("NotFoundException")
      ELSE IF status = 429
      THEN IF StrTruthy(retry)
           THEN IF IntFails(retry) THEN Raised("ValueError")
                ELSE RateLimited([set |-> TRUE, seconds |-> IntOf(retry)])
           ELSE RateLimited([set |-> FALSE, seconds |-> 0])
      ELSE IF 500 <= status /\ status < 600 THEN Raised("ServerException")
      ELSE Raised("APIException")

\* _handle_response called on its own with every response of the model.
HttpInit ==
  /\ RecIdle
  /\ manga_dir = << >>
  /\ remote = << >>
  /\ ChIdle
  /\ OrchIdle
  /\ root = << >>
  /\ response \in [status_code : StatusCodes, retry_after : RetryAfterValues, body : Bodies]
  /\ handled = NoOutcome

HandleResponse ==
  /\ handled = NoOutcome
  /\ handled' = handle_response(response)
  /\ UNCHANGED <<response, root, recVars, chVars, orchVars>>

HttpNext == HandleResponse

SpecHttp == HttpInit /\ [][HttpNext]_vars

\* --------------------------------------- the chapter loop, the pool unfolded

\* The chapter loop of download_manga with download_chapter running step by
\* step: two chapters, the first of one page or of MaxPages pages, the second
\* of one page, on an empty download directory.
LoopCatalog == SubSeq(FetchCatalog, 1, 2)

LoopInit ==
  /\ RecIdle
  /\ manga_dir = RecMangaDir
  /\ remote = LoopCatalog
  /\ root = << >>
  /\ cpc = "idle"
  /\ call = NoCall
  /\ max_workers \in {1, MaxWorkers}
  /\ image_urls = << >>
  /\ chapter_dir = << >>
  /\ download_tasks = << >>
  /\ tstate = << >>
  /\ retry_count = << >>
  /\ collected = {}
  /\ success_count = 0
  /\ net = NoNet
  /\ opened = {}
  /\ files0 = NoFiles
  /\ opc = "chapters"
  /\ mode = "manga"
  /\ request = NoFilters(FALSE)
  /\ manga = [title |-> ("en" :> TheTitle)]
  /\ pages_of \in {[i \in DOMAIN remote |-> PagesOf(i, IF i = 1 THEN n ELSE 1, "jpg")] :
                     n \in {1, MaxPages}}
  /\ manga_title = TheTitle
  /\ chapters_data = CatalogList
  /\ ci = 1
  /\ stats = NewStats(chapters_data, mode)
  /\ orun = 1
  /\ twice = FALSE
  /\ faults = 0
  /\ failure = "none"
  /\ attempts = << >>
  /\ stats1 = NoRun1
  /\ HttpIdle

\* the loop body calls self.download_chapter for chapters_data[ci]
LoopCall ==
  /\ opc = "chapters"
  /\ cpc = "idle"
  /\ cpc' = "call"
  /\ call' = [id |-> chapters_data[ci].id, title |-> manga_title,
              volume |-> chapters_data[ci].volume,
              chapter_number |-> chapters_data[ci].chapter]
  /\ UNCHANGED <<max_workers, image_urls, chapter_dir, download_tasks, tstate, retry_count,
                 collected, success_count, net, opened, files0>>
  /\ UNCHANGED <<root, recVars, orchVars, httpVars>>

LoopPrepare == cpc = "call" /\ \E urls \in {pages_of[call.id]} : ChPrepare(urls)

\* download_chapter has returned or raised: the count, and the next turn of
\* the loop
LoopReturn ==
  /\ opc = "chapters"
  /\ cpc \in {"returned", "raised"}
  /\ stats' = CountChapter(stats, cpc)
  /\ ci' = NextChapter(ci, Len(chapters_data), cpc)
  /\ opc' = IF ci' > Len(chapters_data) THEN "done" ELSE "chapters"
  /\ cpc' = "idle"
  /\ call' = NoCall
  /\ image_urls' = << >>
  /\ chapter_dir' = << >>
  /\ download_tasks' = << >>
  /\ tstate' = << >>
  /\ retry_count' = << >>
  /\ collected' = {}
  /\ success_count' = 0
  /\ net' = NoNet
  /\ opened' = {}
  /\ files0' = NoFiles
  /\ UNCHANGED <<mode, request, manga, pages_of, manga_title, chapters_data, orun, twice,
                 faults, failure, attempts, stats1>>
  /\ UNCHANGED <<root, max_workers, recVars, httpVars>>

LoopNext ==
  LoopCall \/ LoopPrepare \/ Take \/ Attempt \/ Completed \/ ChFinish \/ LoopReturn

SpecLoop == LoopInit /\ [][LoopNext]_vars

\* The chapter loop with its threads scheduled fairly: a worker that can take
\* a task takes it, a request ends (it has a timeout), a retry follows its
\* sleep and the main thread collects every future.
SpecLoopFair == LoopInit /\ [][LoopNext]_vars /\ WF_vars(LoopNext)

\* =================================================================== claims

\* The volume the catalog's list assigns to chapter number c: that of the last
\* entry for c, an unassigned or sentinel volume read as none.
RemoteChapters == {remote[i].chapter : i \in DOMAIN remote}

RemoteVolumeOf(c) ==
  LET last == CHOOSE i \in DOMAIN remote :
                /\ remote[i].chapter = c
                /\ \A j \in DOMAIN remote : remote[j].chapter = c => j <= i
      v    == remote[last].volume
  IN  IF v \in {Null, "", "none", "None", "NONE", "null", "Null", "NULL"} THEN Null ELSE v

\* The directory the layout gives chapter c under volume v.
LayoutDir(v, c) == IF v = Null THEN << <<"Ch.", c>> >> ELSE << <<"Vol.", v>>, <<"Ch.", c>> >>

ChapterOfDir(p) == p[Len(p)][2]

\* The run is over and no catalog or filesystem error was caught in it.
RecSucceeded == rpc = "done" /\ errors = {}

CommonChapters == LocalChapters(tree0) \cap RemoteChapters

\* C1 (as stated): after a successful reconciliation the local assignment, as a
\* scan of the directory observes it (in some iteration order at least), equals
\* the remote one on every chapter number present in both.
C1_AsStated ==
  RecSucceeded =>
    \E ls \in GetCurrentStructure(MangaTree) :
      \A c \in CommonChapters : c \in DOMAIN ls /\ ls[c].volume = RemoteVolumeOf(c)

\* C1 (amended): after a successful reconciliation every chapter number present
\* both in the scanned tree and in the remote list has a directory at the place
\* the remote volume gives it: Vol.{v}/Ch.{c}, or Ch.{c} for no volume.
C1_RemotePlaceExists ==
  RecSucceeded =>
    \A c \in CommonChapters : Exists(MangaTree, LayoutDir(RemoteVolumeOf(c), c))

C1_Witness ==
  /\ RecSucceeded
  /\ moved_count > 0
  /\ skipped # {}
  /\ \E c \in CommonChapters : ~Exists(tree0, LayoutDir(RemoteVolumeOf(c), c))

\* C2: at every point of a reconciliation, whatever errors it met, every
\* chapter directory of the tree it started from still exists with the same
\* files, at its old path or at the path the remote volume gives its chapter;
\* and no directory stands under a volume directory that was removed.
C2_NothingLost ==
  /\ \A p \in ChapterDirs(tree0) :
       \/ Exists(MangaTree, p) /\ MangaTree[p] = tree0[p]
       \/ /\ ChapterOfDir(p) \in RemoteChapters
          /\ LET q == LayoutDir(RemoteVolumeOf(ChapterOfDir(p)), ChapterOfDir(p))
             IN  Exists(MangaTree, q) /\ MangaTree[q] = tree0[p] /\ ~Exists(tree0, q)
  /\ \A q \in DOMAIN MangaTree : Len(q) = 1 \/ (Len(q) = 2 /\ Exists(MangaTree, <<q[1]>>))
  /\ \A p \in DOMAIN tree0 \ DOMAIN MangaTree :
       p \in ChapterDirs(tree0) \/ IterDir(MangaTree, p) = {}

C2_Witness ==
  /\ rpc = "done"
  /\ moved_count > 0
  /\ skipped # {}
  /\ \E p \in DOMAIN tree0 \ DOMAIN MangaTree : p \notin ChapterDirs(tree0)

\* C3: a step of the loop over changes that finds the destination of its change
\* existing leaves the whole download directory as it was and goes on to the
\* next change of the list (or ends the loop after the last).
C3_Collides ==
  /\ rpc = "apply"
  /\ Exists(MangaTree, LayoutDir(changes[pos].to_vol, changes[pos].chapter))

C3_SkipLeavesBoth ==
  [][C3_Collides =>
       /\ root' = root
       /\ pos' = pos + 1
       /\ changes' = changes
       /\ rpc' = (IF pos < Len(changes) THEN "apply" ELSE "done")]_vars

C3_Witness ==
  /\ rpc = "apply"
  /\ pos = 2
  /\ changes[1].chapter \in skipped
  /\ MangaTree = tree0

\* C4 (as stated): the run right after an error-free run computes no
\* StructureChange and moves nothing.
C4_AsStated ==
  (run = 2 /\ run1.errors = {}) => (changes = << >> /\ moved_count = 0)

ChapterNumbersUnique(t) ==
  \A p, q \in ChapterDirs(t) : ChapterOfDir(p) = ChapterOfDir(q) => p = q

\* C4 (amended): the run right after an error-free run moves nothing; every
\* StructureChange it computes is one whose destination already exists; and it
\* computes none when no chapter number has two directories.
C4_SecondRunMovesNothing ==
  (run = 2 /\ run1.errors = {}) =>
     /\ moved_count = 0
     /\ MangaTree = tree0
     /\ \A i \in DOMAIN changes :
          Exists(tree0, LayoutDir(changes[i].to_vol, changes[i].chapter))
     /\ ChapterNumbersUnique(tree0) => changes = << >>

C4_Witness ==
  /\ run = 2
  /\ run1.errors = {}
  /\ run1.moved > 0
  /\ rpc = "done"
  /\ errors = {}
  /\ api_structure.order # << >>
  /\ \E c \in CommonChapters : TRUE
  /\ ChapterNumbersUnique(tree0)
  /\ \E v \in LocalVols : Exists(tree0, <<VolName(v)>>)

\* C6 (as stated): a call that submitted page downloads ends raising
\* DownloadException when none of them succeeded, and returning the chapter
\* directory when at least one did.
C6_AsStated ==
  (cpc \in {"returned", "raised"} /\ download_tasks # << >>) =>
     (cpc = (IF success_count = 0 THEN "raised" ELSE "returned"))

\* The chapter directory held as many files as the resolver then listed pages.
C7_WasComplete ==
  /\ cpc # "call"
  /\ image_urls # << >>
  /\ chapter_dir # << >>
  /\ DirExists(root, chapter_dir)
  /\ Cardinality(DOMAIN files0) = Len(image_urls)

C10_NameOfPage(i) ==
  <<(IF i < 10 THEN <<0, 0, i>>
     ELSE IF i < 100 THEN <<0, i \div 10, i % 10>>
     ELSE <<i \div 100, (i \div 10) % 10, i % 10>>),
    image_urls[i][Len(image_urls[i])]>>

\* C10: in every state of every interleaving, a file opened for page i is the
\* file named {i:03d}.{ext}; every file of the directory is either as it was
\* before the call or holds (part of) the page its name stands for; and when the
\* call returns, the directory is the one it started with plus exactly the
\* files of the pages that were written, each complete when its download
\* succeeded: a function of which downloads succeeded, not of their order.
C10_NamedByPosition ==
  (cpc \in {"pool", "returned"} /\ chapter_dir # << >> /\ DirExists(root, chapter_dir)) =>
     LET files == FilesOf(root, chapter_dir)
     IN  /\ \A o \in opened : o[1] \in DOMAIN image_urls /\ o[2] = C10_NameOfPage(o[1])
         /\ \A n \in DOMAIN files :
              \/ n \in DOMAIN files0 /\ files[n] = files0[n] /\ \A o \in opened : o[2] # n
              \/ \E i \in DOMAIN image_urls :
                   /\ n = C10_NameOfPage(i)
                   /\ <<i, n>> \in opened
                   /\ files[n][1] = call.id /\ files[n][2] = i
         /\ DOMAIN files = DOMAIN files0 \cup {o[2] : o \in opened}
         /\ \A t \in DOMAIN download_tasks :
              tstate[t] = "ok" =>
                 LET n == C10_NameOfPage(download_tasks[t].idx)
                 IN  n \in DOMAIN files /\ files[n] = <<call.id, download_tasks[t].idx, 1>>

\* The second page is on disk, whole, while the first is still being fetched.
C10_Witness ==
  /\ cpc = "pool"
  /\ Len(download_tasks) = 2
  /\ tstate[1] = "running"
  /\ tstate[2] = "ok"
  /\ download_tasks[2].idx = 2
  /\ C10_NameOfPage(2) \in DOMAIN FilesOf(root, chapter_dir)

\* C5 (as stated): no error raised anywhere in auto-reconciliation propagates out
\* of it, so download_manga never ends with an exception that was raised in the
\* legacy-folder scan, the rename, the local scan, the catalog fetch, the move or
\* the cleanup.
C5_AsStated == ~(opc = "raised" /\ failure = "legacy")

\* The second run of download_manga is over, it returned its statistics, and no
\* request or file operation of its own failed.
SecondRunReturned ==
  /\ mode = "manga"
  /\ orun = 2
  /\ opc = "done"
  /\ faults = stats1.faults

\* No page image request was made for a chapter whose directory already held as
\* many files as the chapter has pages.
NoRequestForComplete ==
  \A i \in DOMAIN attempts : attempts[i].complete => attempts[i].requested = {}

ChaptersWithoutPages ==
  {i \in DOMAIN chapters_data : pages_of[chapters_data[i].id] = << >>}

Count(result) == Cardinality({i \in DOMAIN attempts : attempts[i].result = result})

\* C9: in download_manga and download_chapter_range the chapters of the filtered
\* list are attempted once each in list order; an attempt that raises adds one
\* to failed and nothing to downloaded, the later chapters are still attempted,
\* and once the loop has begun the run ends by returning its statistics.
C9_EveryChapterOnce ==
  /\ opc \in {"chapters", "done"} =>
       /\ Len(attempts) = ci - 1
       /\ Len(attempts) <= Len(chapters_data)
       /\ \A i \in DOMAIN attempts : attempts[i].id = chapters_data[i].id
       /\ \A i, j \in DOMAIN chapters_data : chapters_data[i].id = chapters_data[j].id => i = j
       /\ stats.total_chapters = Len(chapters_data)
       /\ stats.failed = Count("raised")
       /\ stats.downloaded = Count("returned")
       /\ opc = "done" => Len(attempts) = Len(chapters_data)
       /\ opc = "chapters" => ci <= Len(chapters_data)
  /\ opc = "raised" => attempts = << >>

\* A run of download_chapter_range whose first chapter raised and whose second
\* was downloaded.
C9_Witness ==
  /\ mode = "range"
  /\ opc = "done"
  /\ Len(attempts) = 2
  /\ attempts[1].result = "raised"
  /\ attempts[2].result = "returned"
  /\ stats.failed = 1
  /\ stats.downloaded = 1

\* The skip rule of the current call found the chapter complete.
SkipRuleFired ==
  /\ cpc = "returned"
  /\ download_tasks = << >>
  /\ image_urls # << >>
  /\ GlobCount(files0) = Len(image_urls)

\* Every page of the resolved list is on disk under its name, whole.
EveryPageWhole ==
  \A i \in DOMAIN image_urls :
    /\ FilePath(i, image_urls[i]) \in DOMAIN FilesOf(root, chapter_dir)
    /\ FilesOf(root, chapter_dir)[FilePath(i, image_urls[i])] = Content(image_urls[i])

\* C11 (as stated): after a call was interrupted while the chapter's pages were
\* being downloaded, the skip rule of the next call treats the chapter as
\* complete only if every one of its pages is fully present on disk.
C11_AsStated == (orun = 2 /\ SkipRuleFired) => EveryPageWhole

\* The directory download_chapter resolves for the chapter at position i of
\* the list being downloaded.
DirOfChapter(i) ==
  GetChapterDir(manga_title, chapters_data[i].volume, chapters_data[i].chapter)

\* The chapters (by id) that the files of directory dir hold pages of.
ChaptersIn(dir) ==
  {FilesOf(root, dir)[f][1] : f \in DOMAIN FilesOf(root, dir)}

\* C12 (as stated): when two chapters attempted in one run resolve to the same
\* directory, the files of that directory are pages of one of them only (even
\* in the runs where no request and no file operation fails).
C12_AsStated ==
  \A i, j \in DOMAIN attempts :
    (faults = MaxFaults /\ i < j /\ DirOfChapter(i) = DirOfChapter(j)) =>
       ~({chapters_data[i].id, chapters_data[j].id} \subseteq ChaptersIn(DirOfChapter(i)))

\* The catalog positions of the chapters a filter pair lets through, a filter
\* that is not in force letting every chapter through.
Matching(volumeInForce, chapterInForce) ==
  {i \in DOMAIN remote :
     /\ volumeInForce => remote[i].volume \in Range(request.volume_filter)
     /\ chapterInForce => remote[i].chapter \in Range(request.chapter_filter)}

\* The list being downloaded is the catalog's chapters at positions `which`, in
\* catalog order, total_chapters counts them, and once the loop is over each
\* was attempted.
DownloadsExactly(which) ==
  /\ {chapters_data[k].id : k \in DOMAIN chapters_data} = which
  /\ Len(chapters_data) = Cardinality(which)
  /\ \A k \in DOMAIN chapters_data :
       /\ chapters_data[k].volume = remote[chapters_data[k].id].volume
       /\ chapters_data[k].chapter = remote[chapters_data[k].id].chapter
       /\ \A l \in DOMAIN chapters_data : k < l => chapters_data[k].id < chapters_data[l].id
  /\ stats.total_chapters = Cardinality(which)
  /\ opc = "done" => {attempts[k].id : k \in DOMAIN attempts} = which

C14_AsStated ==
  /\ opc = "done" => chapters_data # << >>
  /\ failure \in {"no chapters", "no match"} => attempts = << >>

\* The chapter number strings of the model that are numbers, and their values
\* in tenths.
Numeric(s) == s \in {"1", "01", "2"}

TenthsOf(s) == IF s = "2" THEN 20 ELSE 10

\* The catalog positions whose chapter number is a number within the range.
WithinRange ==
  {i \in DOMAIN remote :
     /\ Numeric(remote[i].chapter)
     /\ request.start_chapter <= TenthsOf(remote[i].chapter)
     /\ TenthsOf(remote[i].chapter) <= request.end_chapter}

\* C15 (as stated): download_chapter_range keeps exactly the chapters whose
\* number is a number within [start, end]; a chapter whose number is not
\* numeric or is absent is dropped and no error is raised for it; a kept
\* chapter's directory is named by its number string as the catalog gave it.
C15_AsStated ==
  mode = "range" =>
    /\ failure # "TypeError"
    /\ opc \in {"chapters", "done"} =>
         /\ {chapters_data[k].id : k \in DOMAIN chapters_data} = WithinRange
         /\ \A k \in DOMAIN attempts :
              attempts[k].result = "returned" =>
                 DirExists(root, <<SanitizeFilename(manga_title),
                                   <<ChName(remote[attempts[k].id].chapter)>> >>)

\* The path a string names: PurePath(str).parts.
Slash(a, b) == a \o <<"/">> \o b

RECURSIVE JoinParts(_)
JoinParts(path) ==
  IF Len(path) = 1 THEN path[1] ELSE Slash(path[1], JoinParts(Tail(path)))

\* The volumes the statement calls unassigned: null, empty, or "none" / "null"
\* in any letter case.
C16_NoVolume(volume) ==
  \/ volume = NoneSeq
  \/ volume = << >>
  \/ StrLower(volume) \in {<<"n", "o", "n", "e">>, <<"n", "u", "l", "l">>}

\* S(title): every character of <>:"/\|?* replaced by "_", then trimmed.
C16_S(title) ==
  Strip([i \in DOMAIN title |->
           IF title[i] \in {"<", ">", ":", "\"", "/", "\\", "|", "?", "*"} THEN "_"
           ELSE title[i]])

\* The path the statement gives for the arguments in `call`.
C16_Stated ==
  LET base == Slash(JoinParts(call.download_dir), C16_S(call.manga_title))
      ch   == ChPrefix \o call.chapter
  IN  Parts(IF C16_NoVolume(call.volume) THEN Slash(base, ch)
            ELSE Slash(Slash(base, VolPrefix \o call.volume), ch))

\* C16: the resolved chapter path is root/S(title)/Ch.{chapter} when the volume
\* is null, empty, "none" or "null" in any letter case, and
\* root/S(title)/Vol.{volume}/Ch.{chapter} otherwise; S(title) has none of the
\* characters <>:"/\|?*.
C16_PathAsStated ==
  cpc = "resolved" =>
    /\ chapter_dir = C16_Stated
    /\ \A i \in DOMAIN C16_S(call.manga_title) :
         C16_S(call.manga_title)[i] \notin InvalidChars

\* A title with a replaced character and a volume "None" have been resolved.
C16_Witness ==
  /\ cpc = "resolved"
  /\ call.manga_title = <<"A", ":">>
  /\ call.volume = <<"N", "o", "n", "e">>
  /\ chapter_dir = call.download_dir \o <<<<"A", "_">>, <<"C", "h", ".", "1">>>>

\* The volume of a triple, with every unassigned-volume value counted as one.
C17_VolumeValue(volume) == IF C16_NoVolume(volume) THEN NoneSeq ELSE volume

C17_Differ(a, b) ==
  \/ a.manga_title # b.manga_title
  \/ C17_VolumeValue(a.volume) # C17_VolumeValue(b.volume)
  \/ a.chapter # b.chapter

\* C17 (as stated): two (title, volume, chapter) triples that differ in title,
\* in volume (the unassigned-volume values counted as one) or in chapter number
\* never resolve to the same directory path.
C17_AsStated ==
  cpc = "resolved" =>
    \A other \in [download_dir : {call.download_dir}, manga_title : PathTitles,
                  volume : PathVolumes, chapter : PathChapters] :
       C17_Differ(call, other) =>
          get_chapter_dir(other.download_dir, other.manga_title, other.volume,
                          other.chapter) # chapter_dir

\* C18: when the page resolver answers with an empty URL list, download_chapter
\* raises DownloadException after exactly one page-resolver call, and the
\* filesystem is as before the call: no directory and no file was created.
C18_EmptyListFails ==
  (pages_of[call.id] = << >> /\ cpc # "call") =>
     /\ cpc = "raised"
     /\ net.resolver = 1
     /\ net.image = 0
     /\ chapter_dir = << >>
     /\ root = << >>

\* The resolver was asked once for a chapter without pages and the call raised.
C18_Witness ==
  /\ pages_of[call.id] = << >>
  /\ cpc = "raised"
  /\ net.resolver = 1
  /\ image_urls = << >>
  /\ root = << >>

\* A range typed together with a volume or chapter filter.
C19_InvalidCombination ==
  /\ request.typed.range_input # << >>
  /\ request.typed.volume_input # << >> \/ request.typed.chapter_input # << >>

\* A range answer that is not two numbers with a dash between them.
C19_TwoNumbers(str) ==
  \E k \in DOMAIN str :
     /\ str[k] = "-"
     /\ k > 1 /\ k < Len(str)
     /\ \A i \in DOMAIN str : i # k => str[i] \in {"1", "2"}

C19_MalformedRange ==
  request.typed.range_input # << >> /\ ~C19_TwoNumbers(request.typed.range_input)

\* C19 (as stated): a range given together with chapter or volume filters, or
\* a range whose bounds are not two numbers, is reported as an error and the
\* downloader is not called.
C19_AsStated ==
  (C19_InvalidCombination \/ C19_MalformedRange) => opc # "start"

\* The exception type the statement gives for a status code other than 200.
C20_TypeOf(status) ==
  CASE status = 400 -> "ValidationException"
    [] status = 401 -> "AuthenticationException"
    [] status = 403 -> "AuthorizationException"
    [] status = 404 -> "NotFoundException"
    [] status = 429 -> "RateLimitException"
    [] status \in 500..599 -> "ServerException"
    [] OTHER -> "APIException"

\* C20 (as stated): status 200 returns the parsed body; every other status
\* raises the one exception type given for it and no other type: 400
\* ValidationException, 401 AuthenticationException, 403 AuthorizationException,
\* 404 NotFoundException, 429 RateLimitException, 500-599 ServerException, any
\* other APIException.  The RateLimitException of a 429 has retry_after None
\* when the response has no Retry-After header.
C20_AsStated ==
  handled # NoOutcome =>
    IF response.status_code = 200 THEN handled.kind = "returned"
    ELSE /\ handled.kind = "raised"
         /\ handled.value = C20_TypeOf(response.status_code)
         /\ (response.status_code = 429 /\ response.retry_after = NoneSeq) =>
               ~handled.retry_after.set

\* One step of a run made with auto_update_structure: from its entry the run
\* goes to _auto_update_structure (or raises) before anything else, the
\* chapter list is assigned only at the position after it, and the tree
\* changes under the reconciler only while no download_chapter call was made.
C21_Step ==
  request.auto_update_structure =>
    /\ (opc = "start" /\ opc' # "start" /\ manga_title' # << >>) => opc' = "legacy"
    /\ (chapters_data = << >> /\ chapters_data' # << >>) => opc = "list"
    /\ (opc \in {"legacy", "reconcile"} /\ root' # root) => attempts = << >>

\* C21 (as stated): in every orchestration run with auto_update_structure,
\* download_manga and download_chapter_range alike, reconciliation is invoked
\* before the chapter list is fetched, and every rename or move it performs
\* comes before the first page-resolver call or page write of the run.
C21_AsStated == [][C21_Step]_vars

\* The page downloads in flight: the tasks a worker is running.
InFlight == {t \in DOMAIN tstate : tstate[t] = "running"}

\* C22: at every moment all page downloads in flight belong to one single
\* chapter, the one the loop is at, and there are at most max_workers of them;
\* outside the pool of a download_chapter call, and so when the next chapter's
\* call starts, no page download is in flight or waiting.
C22_OneChapterAtATime ==
  /\ Cardinality(InFlight) <= max_workers
  /\ \A t \in InFlight :
       /\ opc = "chapters"
       /\ call.id = chapters_data[ci].id
       /\ download_tasks[t].url \in Range(pages_of[chapters_data[ci].id])
  /\ cpc # "pool" => \A t \in DOMAIN tstate : tstate[t] \notin {"queued", "running"}

\* The first chapter's pool ran MaxWorkers downloads at once and the second
\* chapter's page is in flight.
C22_Witness ==
  /\ ci = 2
  /\ InFlight # {}
  /\ max_workers = MaxWorkers
  /\ Len(pages_of[1]) = MaxPages
  /\ stats.downloaded = 1

\* The changes the statement asks for: one for each chapter number present
\* locally and remotely whose local volume is not the normalized remote one.
C23_Expected ==
  {[chapter |-> c, from_vol |-> local_structure[c].volume, to_vol |-> RemoteVolumeOf(c),
    path |-> local_structure[c].path] :
     c \in {x \in DOMAIN local_structure \cap RemoteChapters :
              local_structure[x].volume # RemoteVolumeOf(x)}}

\* C23: the computed change list holds exactly one entry (chapter, from = local
\* volume, to = normalized remote volume, source path) for each chapter number
\* present in both assignments with different volumes, and nothing else.
C23_ExactChanges ==
  api_structure.order # << >> =>
    /\ Range(changes) = C23_Expected
    /\ Len(changes) = Cardinality(C23_Expected)

\* Local {1: "1", 2: null} against remote {1: "2", 2: null} gave exactly one
\* change, chapter 1 from "1" to "2".
C23_Witness ==
  /\ rpc = "apply"
  /\ DOMAIN local_structure = {"1", "2"}
  /\ local_structure["1"].volume = "1"
  /\ local_structure["2"].volume = Null
  /\ remote = <<[volume |-> "2", chapter |-> "1"], [volume |-> Null, chapter |-> "2"]>>
  /\ changes = <<[chapter |-> "1", from_vol |-> "1", to_vol |-> "2",
                  path |-> <<VolName("1"), ChName("1")>>]>>

\* The calls of _download_image made for the first n tasks, each task having
\* reached its end: one more than its retries.
RECURSIVE C24_Calls(_)
C24_Calls(n) == IF n = 0 THEN 0 ELSE C24_Calls(n - 1) + retry_count[n] + 1

C24_Over == cpc \in {"returned", "raised"}

\* No task is retried more than MaxRetries times, a task that failed used all
\* its retries, and when the call is over every task it had built (the pages
\* whose file was absent) has ended with True or False after at most
\* MaxRetries + 1 calls, none made after its first success.
C24_Bounded ==
  /\ \A t \in DOMAIN tstate :
       /\ retry_count[t] <= MaxRetries
       /\ tstate[t] = "failed" => retry_count[t] = MaxRetries
  /\ (C24_Over /\ download_tasks # << >>) =>
       /\ \A t \in DOMAIN tstate : tstate[t] \in {"ok", "failed"}
       /\ collected = DOMAIN download_tasks
       /\ net.image = C24_Calls(Len(download_tasks))
       /\ net.image <= Len(download_tasks) * (MaxRetries + 1)

\* C24: each page gets at most MAX_RETRIES + 1 attempts, none after its first
\* success, and _download_image ends with True or False; a page out of retries
\* is counted failed while the other queued pages are still attempted; and
\* download_chapter comes to its end for every pattern of page failures, and
\* so does the loop that calls it.
C24_RetriesEndAndCallEnds == [](C24_Bounded) /\ <>(opc = "done")

\* One page ran out of retries and another was downloaded in the same call.
C24_Witness ==
  /\ cpc = "returned"
  /\ \E t, u \in DOMAIN tstate :
       /\ tstate[t] = "failed"
       /\ retry_count[t] = MaxRetries
       /\ tstate[u] = "ok"
       /\ t < u
  /\ net.image > Len(download_tasks)

\* C25: when the catalog call of a reconciliation fails, the reconciliation
\* moves, creates and removes nothing: the manga directory is as it was
\* scanned.
C25_CatalogFailureLeavesTree ==
  "catalog" \in errors =>
     /\ rpc = "done"
     /\ MangaTree = tree0
     /\ moved_count = 0
     /\ changes = << >>

\* The catalog call failed for a tree that holds a chapter under another
\* volume than the remote list gives it.
C25_Witness ==
  /\ "catalog" \in errors
  /\ rpc = "done"
  /\ \E c \in DOMAIN local_structure \cap RemoteChapters :
       local_structure[c].volume # RemoteVolumeOf(c)

\* What a step of the legacy rename may do to the download directory: nothing,
\* or rename one directory d that passes NameOk and has a Ch.* or Vol.* child
\* to the canonical name, which did not exist; the other directories stay.
C26_Step(NameOk(_)) ==
  (opc = "legacy" /\ root' # root) =>
     LET safe_title == SanitizeFilename(manga_title)
     IN  /\ safe_title \notin DOMAIN root
         /\ opc' # "legacy"
         /\ \E d \in DOMAIN root :
              /\ NameOk(d)
              /\ \E p \in DOMAIN root[d] :
                   Len(p) = 1 /\ p[1][1] \in {"Ch.", "Vol."}
              /\ DOMAIN root' = (DOMAIN root \ {d}) \cup {safe_title}
              /\ root'[safe_title] = root[d]
              /\ \A e \in DOMAIN root \ {d} : root'[e] = root[e]

C26_ShortOrCode(d) == Len(d) <= 3 \/ LowerName(d) \in LangCodes

C26_TwoOrThreeOrCode(d) == Len(d) \in 2..3 \/ LowerName(d) \in LangCodes

\* C26 (amended): the legacy rename runs only when the canonical manga
\* directory does not exist, renames at most one top-level directory per run,
\* and only one whose name has at most 3 characters or is a known language
\* code and that has a Ch.* or Vol.* child directory; every other top-level
\* directory is left unchanged.
C26_LegacyRename == [][C26_Step(C26_ShortOrCode)]_vars

\* C26 as stated: the renamed directory's name has 2 or 3 characters or is a
\* known language code.
C26_AsStated == [][C26_Step(C26_TwoOrThreeOrCode)]_vars

\* After the legacy step one of two old-looking directories carries the
\* canonical name and the other is where it was.
C26_Witness ==
  /\ opc = "reconcile"
  /\ DOMAIN root = {SanitizeFilename(manga_title), <<"E", "N">>}

\* C27 (as stated): when the chapter directory holds another number of files
\* than the chapter has pages, download_chapter downloads every page of the
\* chapter again, the pages whose files exist included.
C27_AsStated ==
  (/\ cpc \in {"pool", "returned"}
   /\ image_urls # << >>
   /\ chapter_dir # << >>
   /\ Cardinality(DOMAIN files0) # Len(image_urls)) =>
     \A i \in DOMAIN image_urls :
       \E t \in DOMAIN download_tasks : download_tasks[t].idx = i

\* The sum of the counters of a stats dictionary; download_chapter_range's
\* dictionary has no "skipped" counter.
C28_Sum(st) ==
  st.downloaded + st.failed + (IF "skipped" \in DOMAIN st THEN st.skipped ELSE 0)

C28_SumIsProcessed ==
  opc \in {"chapters", "done"} =>
     /\ C28_Sum(stats) = Len(attempts)
     /\ C28_Sum(stats) <= stats.total_chapters
     /\ opc = "done" => C28_Sum(stats) = stats.total_chapters

C28_NoDecrease ==
  opc = "chapters" =>
     /\ DOMAIN stats' = DOMAIN stats
     /\ stats'.total_chapters = stats.total_chapters
     /\ stats'.downloaded >= stats.downloaded
     /\ stats'.failed >= stats.failed
     /\ "skipped" \in DOMAIN stats => stats'.skipped >= stats.skipped
     /\ C28_Sum(stats') <= C28_Sum(stats) + 1

\* C28: throughout a run of download_manga or download_chapter_range the
\* counters downloaded, failed and skipped never decrease, their sum is the
\* number of chapters processed so far and never exceeds total_chapters, and
\* when the run returns the sum equals total_chapters.
C28_CountersAddUp == [](C28_SumIsProcessed) /\ [][C28_NoDecrease]_vars

\* In the middle of a run of download_manga: the first of two chapters has
\* failed, the second is still to come.
C28_Witness ==
  /\ mode = "manga"
  /\ opc = "chapters"
  /\ stats.total_chapters = 2
  /\ Len(attempts) = 1
  /\ stats.failed = 1
  /\ stats.downloaded = 0

\* C29 (as stated): for every title, the titles that are empty after
\* sanitizing and the titles "." and ".." included, the chapter directory the
\* downloader creates and writes to lies strictly below a manga directory with
\* a name of its own that is a direct child of the download root.
C29_AsStated ==
  cpc = "resolved" =>
     LET n == Len(call.download_dir)
     IN  /\ Len(chapter_dir) >= n + 2
         /\ SubSeq(chapter_dir, 1, n) = call.download_dir
         /\ \A i \in (n + 1)..Len(chapter_dir) :
              chapter_dir[i] \notin {<< >>, <<".">>, <<".", ".">>}

\* The changes of the list that have been gone through.
C30_Applied == {i \in DOMAIN changes : i < pos}

\* C30: when no chapter number has two directories in the scanned tree and no
\* catalog or filesystem operation of the run fails, reconciliation skips no
\* change for a collision and moves each changed chapter exactly once, to the
\* place the remote list gives it; and the run after such a run finds nothing
\* to change.
C30_UniqueNumbersConverge ==
  (ChapterNumbersUnique(tree0) /\ errors = {}) =>
     /\ skipped = {}
     /\ moved_count = Cardinality(C30_Applied)
     /\ \A i, j \in DOMAIN changes : changes[i].chapter = changes[j].chapter => i = j
     /\ \A i \in C30_Applied :
          /\ Exists(MangaTree, LayoutDir(changes[i].to_vol, changes[i].chapter))
          /\ ~Exists(MangaTree, changes[i].path)
     /\ (run = 2 /\ run1.errors = {}) => changes = << >>

\* The second run is over after a first run that moved two chapters of a tree
\* without a repeated chapter number.
C30_Witness ==
  /\ run = 2
  /\ rpc = "done"
  /\ errors = {}
  /\ run1.errors = {}
  /\ run1.moved = 2
  /\ run1.skipped = {}
  /\ ChapterNumbersUnique(tree0)
  /\ api_structure.order # << >>

====
